---- MODULE Spec2Model ----
(***************************************************************************)
(* A model of the teleterm relay server (src/src/server.rs) and of the     *)
(* streamer session (src/src/cmd/stream.rs).                               *)
(*                                                                         *)
(* The relay is single threaded: Server::poll runs poll_new_connections,   *)
(* poll_read and poll_write in turn, and poll_read / poll_write visit the  *)
(* connections one after the other.  One action below is one visit of one  *)
(* connection by poll_read or poll_write (the loop body together with the  *)
(* arm of poll_read_connection / poll_write_connection that the socket's   *)
(* readiness selects): specification Spec.                                 *)
(*                                                                         *)
(* The streamer session is a future of the same kind: poll_future calls    *)
(* its five sub-operations in turn.  One action is one call of one         *)
(* sub-operation; the relay is the peer of the session's client engine:    *)
(* specification StreamSpec.                                               *)
(***************************************************************************)
EXTENDS Integers, Sequences, FiniteSets, TLC

\* ------------------------------------------------------------------ bounds
MaxConns == 3      \* sockets accepted during a run
MaxMsgs == 6       \* frames decoded by the server during a run
MaxErrors == 1     \* of these, frames that the handlers answer with Err
MaxFailures == 1   \* socket failures (EOF or I/O error, read or write) during a run
MaxChunk == 2      \* longest TerminalOutput payload a client sends
BufSize == 2       \* capacity B of a term::Buffer
MaxOutput == 3     \* bytes the child process of a streamer outputs during a run
MaxWritten == 3    \* bytes the child of the PTY driver writes to its terminal
MaxKeys == 3       \* keys the user of a watch session presses
MaxDrops == 2      \* times the list client of a watch session loses its connection
MaxRoundConns == 2 \* sockets the relay accepts when its rounds are followed
MaxSessions == 55200 \* sessions of a list given to SortedSessions::new
MaxTyped == 4      \* bytes read from the stdin of the PTY driver
RingCap == 3       \* bytes the ring of input_buf holds before it grows

\* the sizes a terminal takes (term::Size)
Sizes == {"80x24", "132x43"}

ConnIds == 1 .. MaxConns
\* an id that is never a key of the connection map ("nope")
NoId == MaxConns + 1

VARIABLES
    connections,   \* Server.connections: id -> Connection
    nextId,        \* the next fresh session id (Session::new mints one per socket)
    sent,          \* history: id -> bytes of the TerminalOutput frames read from it as a caster
    recv,          \* history: id -> bytes of the TerminalOutput messages pushed on its to_send
    joinAt,        \* history: id -> Len(sent[target]) when it became Watching(target)
    nmsgs,         \* frames decoded so far
    nerrs,         \* frames answered with Err so far
    nfail          \* socket failures so far

vars == <<connections, nextId, sent, recv, joinAt, nmsgs, nerrs, nfail>>

VARIABLES
    buffer,        \* StreamSession.buffer: the contents of the term::Buffer
    sent_local,    \* StreamSession.sent_local
    sent_remote,   \* StreamSession.sent_remote
    needs_flush,   \* StreamSession.needs_flush
    connected,     \* StreamSession.connected
    done,          \* StreamSession.done
    raw_screen,    \* StreamSession.raw_screen is Some
    process,       \* StreamSession.process: its state, its size, the bytes it has output
    client,        \* StreamSession.client: its state, its to_send, its connection at the server
    pc,            \* the index in POLL_FNS of the sub-operation poll_future calls next, 0 once the future is Ready
    handed,        \* history: the bytes given to client.send_message since the last Connect
    lost           \* history: the bytes of the messages the client discarded

svars == <<buffer, sent_local, sent_remote, needs_flush, connected, done,
           raw_screen, process, client, pc, handed, lost>>

\* the PTY driver (process.rs) and the child it runs
VARIABLES
    child,         \* "running", or "exited" once process.poll() reports the exit
    pty,           \* the bytes the child wrote to the PTY that were not read yet
    driver,        \* Process: started, exit_done, raw_screen; failed after an Err
    events         \* history: the events the stream has emitted, in order

dvars == <<child, pty, driver, events>>

\* the watch session (cmd/watch.rs) and its list client
VARIABLES
    state,         \* WatchSession.state: LoggingIn, Choosing{sessions}, Watching
    list_client,   \* the engine of the list client: state, to_send, replies
    outcome,        \* the outcome of the future of the watch session
    nkeys,         \* history: the number of keys read
    ndrops         \* history: the number of times the list client lost its connection

wvars == <<state, list_client, outcome, nkeys, ndrops>>

\* one round of Server::poll (server.rs, component_future.rs)
VARIABLES
    phase,         \* the sub-operation poll_future is in, or parked
    keys,          \* poll_read, poll_write: the keys still to visit, in order
    did_work       \* a sub-operation of this round reported DidWork

rvars == <<phase, keys, did_work>>

\* the input side of the PTY driver (process.rs)
VARIABLES
    nread,         \* history: the number of bytes read from stdin
    input_buf,     \* Process.input_buf, a VecDeque: a ring and its head
    pty_in         \* history: the bytes written to the PTY master

ivars == <<nread, input_buf, pty_in>>

\* SortedSessions::new (cmd/watch.rs): the loop that gives the sessions keys
VARIABLES
    offset,        \* the local offset
    nkeyed,        \* the number of sessions inserted in the keymap
    last_key,      \* the code point of the key inserted last, or NoKey
    sorted         \* where the call is: running, returned, or panicked

kvars == <<offset, nkeyed, last_key, sorted>>

allvars == <<vars, svars, dvars, wvars, rvars, ivars, kvars>>

\* ------------------------------------------------------------ term::Buffer
Min(a, b) == IF a < b THEN a ELSE b
Max(a, b) == IF a > b THEN a ELSE b

\* the last n elements of s
LastN(s, n) == SubSeq(s, Len(s) - Min(n, Len(s)) + 1, Len(s))

\* an append that keeps the oldest bytes and drops the newest
BufferAppendOldest(contents, buf, cap) ==
    SubSeq(contents \o buf, 1, Min(cap, Len(contents) + Len(buf)))

\* Buffer::append: the window after appending buf, at most cap bytes, cut
\* from the oldest end
BufferAppend(contents, buf, cap) == LastN(contents \o buf, cap)

\* Buffer::append's return value: the number of bytes dropped from the front
BufferTruncated(contents, buf, cap) == Max(0, Len(contents) + Len(buf) - cap)

\* ------------------------------------------------------ protocol::Message
Message(t, i, d, e) == [type |-> t, id |-> i, data |-> d, msg |-> e]

\* the protocol version of this build
PROTO_VERSION == 1

\* Login{proto_version, ..}: the id field holds the proto_version the client
\* announces
LoginVersion(v) == Message("Login", v, <<>>, "")
Login == LoginVersion(PROTO_VERSION)
\* the Login of a client built for another protocol version
OtherLogin == LoginVersion(PROTO_VERSION + 1)
StartCasting == Message("StartCasting", 0, <<>>, "")
StartWatching(i) == Message("StartWatching", i, <<>>, "")
Heartbeat == Message("Heartbeat", 0, <<>>, "")
TerminalOutput(d) == Message("TerminalOutput", 0, d, "")
ListSessions == Message("ListSessions", 0, <<>>, "")
Resize == Message("Resize", 0, <<>>, "")
Disconnected == Message("Disconnected", 0, <<>>, "")
\* Sessions{sessions}: the ids of the listed sessions.  The order of the
\* values of a HashMap is unspecified; the ids are kept in increasing order.
Sessions(ids) == Message("Sessions", 0, ids, "")
\* Error{msg}: msg is the Display of a server::Error; the id is the one an
\* InvalidWatchId names.  The Debug text of the offending message, which
\* UnexpectedMessage and UnauthenticatedMessage append, is left out.
ErrorMessage(e, i) == Message("Error", i, <<>>, e)

\* ------------------------------------------------- common::ConnectionType
NoTy == [k |-> "None", id |-> 0]
Casting == [k |-> "Casting", id |-> 0]
Watching(i) == [k |-> "Watching", id |-> i]

\* --------------------------------------------------------------- Results
Ok == [ok |-> TRUE, err |-> "", id |-> 0]
Err(e, i) == [ok |-> FALSE, err |-> e, id |-> i]
UnexpectedMessage == Err("unexpected message", 0)
UnauthenticatedMessage == Err("unauthenticated message", 0)
InvalidWatchId(i) == Err("invalid watch id", i)

NoMessage == Message("", 0, <<>>, "")

\* ------------------------------------------------------------ Connection
\* Connection::new
ConnectionNew ==
    [rsock |-> "Connected", wsock |-> "Connected", writing |-> NoMessage,
     ty |-> NoTy, metadata |-> "None", saved_data |-> <<>>,
     to_send |-> <<>>, closed |-> FALSE]

\* a close that pushes the final message and leaves the flag alone
CloseWithoutFlag(conn, res) ==
    LET msg == IF res.ok THEN Disconnected ELSE ErrorMessage(res.err, res.id)
    IN  [conn EXCEPT !.to_send = Append(@, msg)]

\* Connection::close
ConnectionClose(conn, res) ==
    LET msg == IF res.ok THEN Disconnected ELSE ErrorMessage(res.err, res.id)
    IN  [conn EXCEPT !.to_send = Append(@, msg), !.closed = TRUE]

\* a filter that takes every connection that has logged in
LoggedIn(conn) == conn.metadata # "None"

\* Server::casters: the filter of the iterator
IsCaster(conn) == conn.metadata # "None" /\ conn.ty = Casting

\* Server::watchers_mut: the filter of the iterator
IsWatcher(conn) == conn.metadata # "None" /\ conn.ty.k = "Watching"

\* the elements of a set of integers in increasing order
RECURSIVE SortedSeq(_)
SortedSeq(S) ==
    IF S = {} THEN <<>>
    ELSE LET m == CHOOSE x \in S : \A y \in S : x <= y
         IN  <<m>> \o SortedSeq(S \ {m})

\* The handlers take the map without the connection being polled (poll_read
\* removes it from the map before the call), the connection, its id and the
\* message, and give the map, the connection and the Result afterwards.
Outcome(conns, conn, res) == [conns |-> conns, conn |-> conn, res |-> res]

\* a login handler that accepts the Login and records nothing
LoginWithoutConnect(conns, conn, id, m) ==
    IF m.type = "Login"
    THEN Outcome(conns, conn, Ok)
    ELSE Outcome(conns, conn, UnauthenticatedMessage)

\* Server::handle_login_message
handle_login_message(conns, conn, id, m) ==
    IF m.type = "Login"
    THEN Outcome(conns, [conn EXCEPT !.metadata = "Some"], Ok)
    ELSE Outcome(conns, conn, UnauthenticatedMessage)

\* a caster handler that saves the output and mirrors it to nobody
CastWithoutFanOut(conns, conn, id, m) ==
    CASE m.type = "Heartbeat" ->
            Outcome(conns, [conn EXCEPT !.to_send = Append(@, Heartbeat)], Ok)
      [] m.type = "TerminalOutput" ->
            Outcome(conns,
                [conn EXCEPT !.saved_data = BufferAppend(@, m.data, BufSize)],
                Ok)
      [] OTHER -> Outcome(conns, conn, UnexpectedMessage)

\* Server::handle_cast_message
handle_cast_message(conns, conn, id, m) ==
    CASE m.type = "Heartbeat" ->
            Outcome(conns, [conn EXCEPT !.to_send = Append(@, Heartbeat)], Ok)
      [] m.type = "TerminalOutput" ->
            Outcome(
                [w \in DOMAIN conns |->
                    IF IsWatcher(conns[w]) /\ conns[w].ty.id = id
                    THEN [conns[w] EXCEPT
                            !.to_send = Append(@, TerminalOutput(m.data))]
                    ELSE conns[w]],
                [conn EXCEPT
                    !.saved_data = BufferAppend(@, m.data, BufSize)],
                Ok)
      [] OTHER -> Outcome(conns, conn, UnexpectedMessage)

\* Server::handle_watch_message
handle_watch_message(conns, conn, id, m) ==
    IF m.type = "Heartbeat"
    THEN Outcome(conns, [conn EXCEPT !.to_send = Append(@, Heartbeat)], Ok)
    ELSE Outcome(conns, conn, UnexpectedMessage)

\* a role-less handler whose StartWatching sets the role and sends no primer
OtherWithoutPrimer(conns, conn, id, m) ==
    CASE m.type = "ListSessions" ->
            Outcome(conns,
                [conn EXCEPT !.to_send = Append(@,
                    Sessions(SortedSeq({c \in DOMAIN conns : IsCaster(conns[c])})))],
                Ok)
      [] m.type = "StartCasting" ->
            Outcome(conns, [conn EXCEPT !.ty = Casting], Ok)
      [] m.type = "StartWatching" ->
            IF m.id \in DOMAIN conns
            THEN Outcome(conns, [conn EXCEPT !.ty = Watching(m.id)], Ok)
            ELSE Outcome(conns, conn, InvalidWatchId(m.id))
      [] OTHER -> Outcome(conns, conn, UnexpectedMessage)

\* Server::handle_other_message
handle_other_message(conns, conn, id, m) ==
    CASE m.type = "ListSessions" ->
            Outcome(conns,
                [conn EXCEPT !.to_send = Append(@,
                    Sessions(SortedSeq({c \in DOMAIN conns : IsCaster(conns[c])})))],
                Ok)
      [] m.type = "StartCasting" ->
            Outcome(conns, [conn EXCEPT !.ty = Casting], Ok)
      [] m.type = "StartWatching" ->
            IF m.id \in DOMAIN conns
            THEN Outcome(conns,
                    [conn EXCEPT
                        !.ty = Watching(m.id),
                        !.to_send = Append(@,
                            TerminalOutput(conns[m.id].saved_data))],
                    Ok)
            ELSE Outcome(conns, conn, InvalidWatchId(m.id))
      [] OTHER -> Outcome(conns, conn, UnexpectedMessage)

\* a dispatch that looks at the role only, never at the login state
DispatchByRole(conn) ==
    CASE conn.ty.k = "Casting" -> "cast"
      [] conn.ty.k = "Watching" -> "watch"
      [] OTHER -> "other"

\* a dispatch that looks at the login state only, never at the role
DispatchByLogin(conn) ==
    IF conn.metadata = "None" THEN "login" ELSE "other"

\* Server::handle_message: the handler the dispatch selects
Dispatch(conn) ==
    IF conn.metadata = "None" THEN "login"
    ELSE CASE conn.ty.k = "Casting" -> "cast"
           [] conn.ty.k = "Watching" -> "watch"
           [] OTHER -> "other"

\* Server::handle_message
handle_message(conns, conn, id, m) ==
    LET h == Dispatch(conn)
    IN  CASE h = "login" -> handle_login_message(conns, conn, id, m)
          [] h = "cast" -> handle_cast_message(conns, conn, id, m)
          [] h = "watch" -> handle_watch_message(conns, conn, id, m)
          [] OTHER -> handle_other_message(conns, conn, id, m)

\* a disconnect that closes every watcher, whatever it watches
DisconnectEveryWatcher(conns, id) ==
    [w \in DOMAIN conns |->
        IF IsWatcher(conns[w])
        THEN ConnectionClose(conns[w], Ok)
        ELSE conns[w]]

\* Server::handle_disconnect: the map after the watchers of id were closed
handle_disconnect(conns, id) ==
    [w \in DOMAIN conns |->
        IF IsWatcher(conns[w]) /\ conns[w].ty.id = id
        THEN ConnectionClose(conns[w], Ok)
        ELSE conns[w]]

\* ------------------------------------------------------------- the steps
Without(conns, id) == [c \in DOMAIN conns \ {id} |-> conns[c]]
With(conns, id, conn) ==
    [c \in DOMAIN conns \cup {id} |-> IF c = id THEN conn ELSE conns[c]]

\* the messages pushed on the to_send of c by a step from map old to map new
Pushed(old, new, c) ==
    IF c \in DOMAIN old /\ c \in DOMAIN new
    THEN SubSeq(new[c].to_send, Len(old[c].to_send) + 1, Len(new[c].to_send))
    ELSE <<>>

\* the elements of a sequence, as a set
Range(ms) == {ms[i] : i \in DOMAIN ms}

\* the bytes of the TerminalOutput messages of a sequence of messages
RECURSIVE OutputBytes(_)
OutputBytes(ms) ==
    IF ms = <<>> THEN <<>>
    ELSE (IF Head(ms).type = "TerminalOutput" THEN Head(ms).data ELSE <<>>)
            \o OutputBytes(Tail(ms))

\* the frames the client of connection c can send, TerminalOutput apart: a
\* StartWatching names the id of a session, present, gone or yet to come,
\* or no session at all
ClientMessages(c) ==
    {Login, OtherLogin, StartCasting, Heartbeat, ListSessions, Resize}
        \cup {StartWatching(i) : i \in ConnIds \cup {NoId}}

\* the TerminalOutput frames the client of connection c can send: its next
\* n bytes, each byte labelled with its position in what c has sent
ClientOutput(c) ==
    {TerminalOutput([i \in 1 .. n |-> Len(sent[c]) + i]) : n \in 0 .. MaxChunk}

\* Server::new
ServerNew ==
    /\ connections = << >>
    /\ nextId = 1
    /\ sent = [c \in ConnIds |-> <<>>]
    /\ recv = [c \in ConnIds |-> <<>>]
    /\ joinAt = [c \in ConnIds |-> 0]
    /\ nmsgs = 0
    /\ nerrs = 0
    /\ nfail = 0

\* StreamSession::new
StreamSessionNew ==
    /\ buffer = <<>>
    /\ sent_local = 0
    /\ sent_remote = 0
    /\ needs_flush = FALSE
    /\ connected = FALSE
    /\ done = FALSE
    /\ raw_screen = FALSE
    /\ process = [state |-> "Spawning", size |-> "", output |-> 0]
    /\ client = [state |-> "Connecting", to_send |-> <<>>, conn |-> NoId]
    /\ pc = 1
    /\ handed = <<>>
    /\ lost = {}

\* ------------------------------------------------------ process::Process
\* the bytes a child writes: a line feed, a carriage return, any other byte
LF == 10
CR == 13
OtherByte == 104
Bytes == {LF, CR, OtherByte}

\* an output that is passed on as it was read
NoTranslation(bytes) == bytes

\* poll_read_stdout: the fold over the bytes read, which puts \r\n for
\* each \n
RECURSIVE Translate(_)
Translate(bytes) ==
    IF bytes = <<>> THEN <<>>
    ELSE (IF Head(bytes) = LF THEN <<CR, LF>> ELSE <<Head(bytes)>>)
            \o Translate(Tail(bytes))

\* CommandEvent.  read is history: the bytes of the PTY read that an Output
\* was made of.
CommandStart == [type |-> "CommandStart", data |-> <<>>, read |-> <<>>]
Output(read) == [type |-> "Output", data |-> Translate(read), read |-> read]
CommandExit == [type |-> "CommandExit", data |-> <<>>, read |-> <<>>]

\* VecDeque<u8>: a ring of cap places, the front of the queue at place head,
\* and the bytes queued, front first
VecDequeNew == [head |-> 0, cap |-> RingCap, items |-> <<>>]

\* VecDeque::as_slices: the bytes from the front to the end of the ring, and
\* the bytes that wrapped around to its start
as_slices(q) ==
    LET n == Min(Len(q.items), q.cap - q.head)
    IN  <<SubSeq(q.items, 1, n), SubSeq(q.items, n + 1, Len(q.items))>>

\* a choice of the slice to write that prefers the second slice
BackSlice(q) ==
    IF as_slices(q)[2] = <<>> THEN as_slices(q)[1] ELSE as_slices(q)[2]

\* poll_write_stdin: let buf = if a.is_empty() { b } else { a }
WriteSlice(q) ==
    IF as_slices(q)[1] = <<>> THEN as_slices(q)[2] ELSE as_slices(q)[1]

\* VecDeque::extend: the bytes go to the back; a ring that is too small is
\* doubled, with the queue laid out from its start
RECURSIVE Grown(_, _)
Grown(cap, n) == IF n <= cap THEN cap ELSE Grown(2 * cap, n)

extend(q, bytes) ==
    IF Len(q.items) + Len(bytes) <= q.cap
    THEN [q EXCEPT !.items = @ \o bytes]
    ELSE [head |-> 0, cap |-> Grown(q.cap, Len(q.items) + Len(bytes)),
          items |-> q.items \o bytes]

\* pop_front, n times
pop_front(q, n) ==
    [q EXCEPT !.head = (@ + n) % q.cap,
              !.items = SubSeq(@, n + 1, Len(@))]

\* Process::new, and the child it spawned
ProcessNew ==
    /\ child = "running"
    /\ pty = <<>>
    /\ driver = [started |-> FALSE, exit_done |-> FALSE,
                 raw_screen |-> FALSE, failed |-> FALSE]
    /\ events = <<>>
    /\ nread = 0
    /\ input_buf = VecDequeNew
    /\ pty_in = <<>>

\* ------------------------------------------------------ cmd::watch
\* State
LoggingIn == [k |-> "LoggingIn", sessions |-> <<>>, id |-> NoId]
Choosing(sessions) == [k |-> "Choosing", sessions |-> sessions, id |-> NoId]
WatchingSession(id) == [k |-> "Watching", sessions |-> <<>>, id |-> id]

\* WatchSession::new
WatchSessionNew ==
    /\ state = LoggingIn
    /\ list_client = [state |-> "Connecting", to_send |-> <<>>, replies |-> 0]
    /\ outcome = "Pending"
    /\ nkeys = 0
    /\ ndrops = 0

\* code points
NoKey == 0
SPACE == 32
CHAR_A == 97
CHAR_Q == 113

\* SortedSessions::new before the first session is given a key
KeymapNew ==
    /\ offset = 0
    /\ nkeyed = 0
    /\ last_key = NoKey
    /\ sorted = "running"

\* the first call of Server::poll
PollNew ==
    /\ phase = "new"
    /\ keys = <<>>
    /\ did_work = FALSE

Init ==
    /\ ServerNew
    /\ StreamSessionNew
    /\ ProcessNew
    /\ WatchSessionNew
    /\ PollNew
    /\ KeymapNew

\* Server::poll loops as long as a sub-operation reports DidWork.  The
\* visits that need no event from the outside (creating a read future,
\* popping a queued message into a write future, dropping a drained closed
\* connection) are therefore taken before the next event (a socket accepted,
\* a frame, a completed write, a failure) is taken.  They commute with the
\* handling of an event, which only pushes on the back of a to_send.
Settled ==
    \A c \in DOMAIN connections :
        /\ connections[c].rsock = "Reading"
        /\ connections[c].wsock = "Connected" =>
              connections[c].to_send = <<>> /\ ~connections[c].closed

\* Server::poll_new_connections, a socket arrives on the channel
poll_new_connections ==
    /\ Settled
    /\ nextId <= MaxConns
    /\ connections' = With(connections, nextId, ConnectionNew)
    /\ nextId' = nextId + 1
    /\ UNCHANGED <<sent, recv, joinAt, nmsgs, nerrs, nfail>>
    /\ UNCHANGED <<svars, dvars, wvars, rvars, ivars, kvars>>

\* poll_read_connection, rsock Connected: start reading the next frame
ReadStart(c) ==
    /\ connections[c].rsock = "Connected"
    /\ connections' = [connections EXCEPT ![c].rsock = "Reading"]
    /\ UNCHANGED <<nextId, sent, recv, joinAt, nmsgs, nerrs, nfail>>
    /\ UNCHANGED <<svars, dvars, wvars, rvars, ivars, kvars>>

\* poll_read_connection, rsock Reading and the future Ready((m, s)): the
\* Result of handle_message
MessageResult(c, m) ==
    handle_message(Without(connections, c), connections[c], c, m).res

\* the connection map conns after poll_read's visit of c when the read future
\* is Ready((m, s))
Handled(conns, c, m) ==
    LET conn == conns[c]
        out == handle_message(Without(conns, c), conn, c, m)
        conn1 == IF out.res.ok THEN out.conn
                 ELSE ConnectionClose(out.conn, out.res)
    IN  With(out.conns, c, [conn1 EXCEPT !.rsock = "Connected"])

AfterMessage(c, m) == Handled(connections, c, m)

\* poll_read_connection, rsock Reading and the future Ready: a frame of c
\* was decoded and is handled
ReadMessage(c, m) ==
    /\ Settled
    /\ nmsgs < MaxMsgs
    /\ MessageResult(c, m).ok \/ nerrs < MaxErrors
    /\ LET conn == connections[c]
           new == AfterMessage(c, m)
       IN  /\ connections' = new
           /\ recv' = [w \in ConnIds |->
                        recv[w] \o OutputBytes(Pushed(connections, new, w))]
           /\ sent' = IF IsCaster(conn) /\ m.type = "TerminalOutput"
                      THEN [sent EXCEPT ![c] = @ \o m.data]
                      ELSE sent
           /\ joinAt' = IF new[c].ty.k = "Watching" /\ conn.ty.k # "Watching"
                        THEN [joinAt EXCEPT ![c] = Len(sent[new[c].ty.id])]
                        ELSE joinAt
    /\ nmsgs' = nmsgs + 1
    /\ nerrs' = IF MessageResult(c, m).ok THEN nerrs ELSE nerrs + 1
    /\ UNCHANGED <<nextId, nfail>>
    /\ UNCHANGED <<svars, dvars, wvars, rvars, ivars, kvars>>

\* the connection c leaves the map, with or without handle_disconnect; what
\* it sent and was sent is forgotten, where it joined is not
Leave(c, disconnect) ==
    LET rest == Without(connections, c)
        new == IF disconnect THEN handle_disconnect(rest, c) ELSE rest
    IN  /\ connections' = new
        /\ recv' = [recv EXCEPT ![c] = <<>>]
        /\ sent' = [sent EXCEPT ![c] = <<>>]
        /\ UNCHANGED <<nextId, joinAt, nmsgs, nerrs>>
        /\ UNCHANGED <<svars, dvars, wvars, rvars, ivars, kvars>>

\* a socket fails
Failure ==
    /\ nfail < MaxFailures
    /\ nfail' = nfail + 1

\* poll_read_connection, the read future fails with EOF or UnexpectedEof:
\* Event, so poll_read runs handle_disconnect and drops the connection
ReadEof(c) ==
    /\ Settled
    /\ Failure
    /\ Leave(c, TRUE)

\* poll_read_connection, the read future fails with any other error (an
\* I/O error, or a frame that does not decode): Err, so poll_read logs it
\* and drops the connection
ReadError(c) ==
    /\ Settled
    /\ Failure
    /\ Leave(c, FALSE)

\* a write that takes the message queued last
WriteStartLast(c) ==
    /\ connections[c].wsock = "Connected"
    /\ connections[c].to_send # <<>>
    /\ connections' = [connections EXCEPT
            ![c].writing = connections[c].to_send[Len(connections[c].to_send)],
            ![c].to_send = SubSeq(@, 1, Len(@) - 1),
            ![c].wsock = "Writing"]
    /\ UNCHANGED <<nextId, sent, recv, joinAt, nmsgs, nerrs, nfail>>
    /\ UNCHANGED <<svars, dvars, wvars, rvars, ivars, kvars>>

\* poll_write_connection, wsock Connected and a message queued
WriteStart(c) ==
    /\ connections[c].wsock = "Connected"
    /\ connections[c].to_send # <<>>
    /\ connections' = [connections EXCEPT
            ![c].writing = Head(connections[c].to_send),
            ![c].to_send = Tail(@),
            ![c].wsock = "Writing"]
    /\ UNCHANGED <<nextId, sent, recv, joinAt, nmsgs, nerrs, nfail>>
    /\ UNCHANGED <<svars, dvars, wvars, rvars, ivars, kvars>>

\* poll_write_connection, wsock Connected, nothing queued and closed: Event,
\* so poll_write runs handle_disconnect and drops the connection
WriteClosed(c) ==
    /\ connections[c].wsock = "Connected"
    /\ connections[c].to_send = <<>>
    /\ connections[c].closed
    /\ Leave(c, TRUE)
    /\ UNCHANGED nfail

\* a poll_write that stops at the first connection whose write is pending:
\* the write of c completes only when no connection before it is Writing
WriteDoneInTurn(c) ==
    /\ Settled
    /\ connections[c].wsock = "Writing"
    /\ \A d \in DOMAIN connections : d < c => connections[d].wsock # "Writing"
    /\ connections' = [connections EXCEPT
            ![c].wsock = "Connected", ![c].writing = NoMessage]
    /\ UNCHANGED <<nextId, sent, recv, joinAt, nmsgs, nerrs, nfail>>
    /\ UNCHANGED <<svars, dvars, wvars, rvars, ivars, kvars>>

\* poll_write_connection, wsock Writing and the future Ready
WriteDone(c) ==
    /\ Settled
    /\ connections[c].wsock = "Writing"
    /\ connections' = [connections EXCEPT
            ![c].wsock = "Connected", ![c].writing = NoMessage]
    /\ UNCHANGED <<nextId, sent, recv, joinAt, nmsgs, nerrs, nfail>>
    /\ UNCHANGED <<svars, dvars, wvars, rvars, ivars, kvars>>

\* poll_write_connection, the write future fails with EOF or UnexpectedEof:
\* Event
WriteEof(c) ==
    /\ Settled
    /\ connections[c].wsock = "Writing"
    /\ Failure
    /\ Leave(c, TRUE)

\* poll_write_connection, the write future fails with any other error: Err,
\* so poll_write logs it and drops the connection
WriteError(c) ==
    /\ Settled
    /\ connections[c].wsock = "Writing"
    /\ Failure
    /\ Leave(c, FALSE)

\* Server::poll_read, the visit of one connection
poll_read ==
    \/ \E c \in DOMAIN connections : ReadStart(c)
    \/ \E c \in DOMAIN connections :
            \E m \in ClientMessages(c) \cup ClientOutput(c) : ReadMessage(c, m)
    \/ \E c \in DOMAIN connections : ReadEof(c)
    \/ \E c \in DOMAIN connections : ReadError(c)

\* Server::poll_write, the visit of one connection
poll_write ==
    \/ \E c \in DOMAIN connections : WriteStart(c)
    \/ \E c \in DOMAIN connections : WriteClosed(c)
    \/ \E c \in DOMAIN connections : WriteDone(c)
    \/ \E c \in DOMAIN connections : WriteEof(c)
    \/ \E c \in DOMAIN connections : WriteError(c)

Next == poll_new_connections \/ poll_read \/ poll_write

Spec == Init /\ [][Next]_allvars

\* ------------------------------------------------------ a round of the relay
\* Server::poll as poll_future runs it: a round calls poll_new_connections,
\* poll_read and poll_write in the order of POLL_FNS; poll_read and
\* poll_write visit the keys the map had when they began, in the order the
\* HashMap gives them; after the round another one follows when a
\* sub-operation reported DidWork, and otherwise the task is parked until a
\* socket it polled wakes it.  What the sockets deliver in a visit is the
\* choice of the outside.  The histories of the bytes (sent, recv, joinAt)
\* are not kept here.

\* the orders in which the keys of a map can be visited
Orders(S) ==
    {o \in [1 .. Cardinality(S) -> S] :
        \A i, j \in 1 .. Cardinality(S) : o[i] = o[j] => i = j}

ServerCounters == <<nmsgs, nerrs, nfail>>
Histories == <<sent, recv, joinAt>>

\* the frames a client sends in a round: the ones that log in and set a
\* role, one a caster's watchers are sent a copy of, and one that is an
\* error before the login and nothing after it
RoundMessages ==
    {Login, StartCasting, Heartbeat, TerminalOutput(<<1>>)}
        \cup {StartWatching(i) : i \in DOMAIN connections}

\* poll_new_connections, Ready(Some(conn)): DidWork
RoundAccept ==
    /\ phase = "new"
    /\ nextId <= MaxRoundConns
    /\ connections' = With(connections, nextId, ConnectionNew)
    /\ nextId' = nextId + 1
    /\ did_work' = TRUE
    /\ phase' = "read"
    /\ keys' \in Orders(DOMAIN connections')
    /\ UNCHANGED <<ServerCounters, Histories>>
    /\ UNCHANGED <<svars, dvars, wvars, ivars, kvars>>

\* poll_new_connections, NotReady
RoundNoAccept ==
    /\ phase = "new"
    /\ phase' = "read"
    /\ keys' \in Orders(DOMAIN connections)
    /\ UNCHANGED <<did_work, vars>>
    /\ UNCHANGED <<svars, dvars, wvars, ivars, kvars>>

\* a visit of poll_read or poll_write: the connection at the head of keys
Visit(p) ==
    /\ phase = p
    /\ keys # <<>>
    /\ keys' = Tail(keys)
    /\ phase' = phase
    /\ UNCHANGED <<nextId, Histories>>
    /\ UNCHANGED <<svars, dvars, wvars, ivars, kvars>>

\* the visit reports DidWork, or something else
DidWork == did_work' = TRUE
NoWork == UNCHANGED did_work

\* poll_read_connection, rsock Connected: DidWork
VisitReadStart ==
    /\ Visit("read")
    /\ connections[Head(keys)].rsock = "Connected"
    /\ connections' = [connections EXCEPT ![Head(keys)].rsock = "Reading"]
    /\ DidWork
    /\ UNCHANGED ServerCounters

\* poll_read_connection, rsock Reading, the future is Ready((m, s)): DidWork
VisitReadMessage(m) ==
    /\ Visit("read")
    /\ connections[Head(keys)].rsock = "Reading"
    /\ nmsgs < MaxMsgs
    /\ MessageResult(Head(keys), m).ok \/ nerrs < MaxErrors
    /\ connections' = Handled(connections, Head(keys), m)
    /\ nmsgs' = nmsgs + 1
    /\ nerrs' = IF MessageResult(Head(keys), m).ok THEN nerrs ELSE nerrs + 1
    /\ DidWork
    /\ UNCHANGED nfail

\* poll_read_connection, rsock Reading, the future is NotReady
VisitReadNotReady ==
    /\ Visit("read")
    /\ connections[Head(keys)].rsock = "Reading"
    /\ NoWork
    /\ UNCHANGED <<connections, ServerCounters>>

\* poll_read_connection, rsock Reading, the future fails.  On EOF it is an
\* Event, poll_read runs handle_disconnect and goes on without the
\* connection; on another error it is Err and poll_read only goes on without
\* the connection.  Neither sets did_work.
VisitReadFailure(eof) ==
    /\ Visit("read")
    /\ connections[Head(keys)].rsock = "Reading"
    /\ nfail < MaxFailures
    /\ nfail' = nfail + 1
    /\ connections' =
            IF eof
            THEN handle_disconnect(Without(connections, Head(keys)),
                                   Head(keys))
            ELSE Without(connections, Head(keys))
    /\ NoWork
    /\ UNCHANGED <<nmsgs, nerrs>>

\* poll_read has visited every key: poll_write begins
ReadPassEnd ==
    /\ phase = "read"
    /\ keys = <<>>
    /\ phase' = "write"
    /\ keys' \in Orders(DOMAIN connections)
    /\ UNCHANGED <<did_work, vars>>
    /\ UNCHANGED <<svars, dvars, wvars, ivars, kvars>>

\* poll_write_connection, wsock Connected and a message queued: DidWork
VisitWriteStart ==
    /\ Visit("write")
    /\ connections[Head(keys)].wsock = "Connected"
    /\ connections[Head(keys)].to_send # <<>>
    /\ connections' = [connections EXCEPT
            ![Head(keys)].writing = Head(connections[Head(keys)].to_send),
            ![Head(keys)].to_send = Tail(@),
            ![Head(keys)].wsock = "Writing"]
    /\ DidWork
    /\ UNCHANGED ServerCounters

\* poll_write_connection, wsock Connected, nothing queued and closed: Event,
\* poll_write runs handle_disconnect and goes on without the connection; it
\* does not set did_work
VisitWriteClosed ==
    /\ Visit("write")
    /\ connections[Head(keys)].wsock = "Connected"
    /\ connections[Head(keys)].to_send = <<>>
    /\ connections[Head(keys)].closed
    /\ connections' =
            handle_disconnect(Without(connections, Head(keys)), Head(keys))
    /\ NoWork
    /\ UNCHANGED ServerCounters

\* poll_write_connection, wsock Connected, nothing queued and not closed:
\* NothingToDo
VisitWriteNothing ==
    /\ Visit("write")
    /\ connections[Head(keys)].wsock = "Connected"
    /\ connections[Head(keys)].to_send = <<>>
    /\ ~connections[Head(keys)].closed
    /\ NoWork
    /\ UNCHANGED <<connections, ServerCounters>>

\* poll_write_connection, wsock Writing and the future Ready: DidWork
VisitWriteDone ==
    /\ Visit("write")
    /\ connections[Head(keys)].wsock = "Writing"
    /\ connections' = [connections EXCEPT
            ![Head(keys)].wsock = "Connected",
            ![Head(keys)].writing = NoMessage]
    /\ DidWork
    /\ UNCHANGED ServerCounters

\* poll_write_connection, wsock Writing and the future NotReady
VisitWriteNotReady ==
    /\ Visit("write")
    /\ connections[Head(keys)].wsock = "Writing"
    /\ NoWork
    /\ UNCHANGED <<connections, ServerCounters>>

\* poll_write_connection, wsock Writing and the future fails: Event on EOF,
\* Err otherwise, as in poll_read
VisitWriteFailure(eof) ==
    /\ Visit("write")
    /\ connections[Head(keys)].wsock = "Writing"
    /\ nfail < MaxFailures
    /\ nfail' = nfail + 1
    /\ connections' =
            IF eof
            THEN handle_disconnect(Without(connections, Head(keys)),
                                   Head(keys))
            ELSE Without(connections, Head(keys))
    /\ NoWork
    /\ UNCHANGED <<nmsgs, nerrs>>

\* poll_future after poll_write: DidWork was reported, so it starts over
RoundAgain ==
    /\ phase = "write"
    /\ keys = <<>>
    /\ did_work
    /\ phase' = "new"
    /\ did_work' = FALSE
    /\ UNCHANGED <<keys, vars>>
    /\ UNCHANGED <<svars, dvars, wvars, ivars, kvars>>

\* poll_future after poll_write: no DidWork, so Server::poll returns NotReady
\* and the task is parked
RoundPark ==
    /\ phase = "write"
    /\ keys = <<>>
    /\ ~did_work
    /\ phase' = "parked"
    /\ UNCHANGED <<keys, did_work, vars>>
    /\ UNCHANGED <<svars, dvars, wvars, ivars, kvars>>

\* a socket the last round polled and found NotReady wakes the task
RoundWake ==
    /\ phase = "parked"
    /\ \/ nextId <= MaxRoundConns
       \/ \E c \in DOMAIN connections :
            connections[c].rsock = "Reading" \/ connections[c].wsock = "Writing"
    /\ phase' = "new"
    /\ UNCHANGED <<keys, did_work, vars>>
    /\ UNCHANGED <<svars, dvars, wvars, ivars, kvars>>

RoundRead ==
    \/ VisitReadStart
    \/ /\ keys # <<>>
       /\ \E m \in RoundMessages : VisitReadMessage(m)
    \/ VisitReadNotReady
    \/ \E eof \in BOOLEAN : VisitReadFailure(eof)
    \/ ReadPassEnd

RoundWrite ==
    \/ VisitWriteStart
    \/ VisitWriteClosed
    \/ VisitWriteNothing
    \/ VisitWriteDone
    \/ VisitWriteNotReady
    \/ \E eof \in BOOLEAN : VisitWriteFailure(eof)

RoundNext ==
    \/ RoundAccept
    \/ RoundNoAccept
    \/ RoundRead
    \/ RoundWrite
    \/ RoundAgain
    \/ RoundPark
    \/ RoundWake

RoundSpec == Init /\ [][RoundNext]_allvars

\* ------------------------------------------------------ the streamer session
\* StreamSession (cmd/stream.rs) with its client engine and, at the other end
\* of the engine's socket, the relay.  poll_future calls the sub-operations in
\* the order of POLL_FNS, again and again; pc is the one it calls next.  The
\* k-th byte the child process outputs has the value k.

\* a counter that ignores what the buffer dropped
NotAdjusted(counter, truncated) == counter

\* StreamSession::record_bytes: a counter after the buffer dropped truncated
\* bytes from its front
Saturating(counter, truncated) ==
    IF truncated > counter THEN 0 ELSE counter - truncated

\* the whole window, whatever was sent of it
WholeWindow(contents, from) == contents

\* poll_write_server: &self.buffer.contents()[self.sent_remote..]
Unsent(contents, from) == SubSeq(contents, from + 1, Len(contents))

\* the connection map after the relay accepted a socket under a fresh id and
\* handled the frames ms read from it
RECURSIVE HandledAll(_, _, _)
HandledAll(conns, c, ms) ==
    IF ms = <<>> THEN conns
    ELSE HandledAll(Handled(conns, c, Head(ms)), c, Tail(ms))

Accepted(id, ms) == HandledAll(With(connections, id, ConnectionNew), id, ms)

\* pc when a sub-operation returned Err: the future of the session is Err
Failed == 6

\* the result of the future of the session
SessionResult ==
    IF pc = 0 THEN "Ok" ELSE IF pc = Failed THEN "Err" ELSE "Pending"

\* run_impl, from tokio::run on: the error of the future is printed by the
\* map_err closure and the function returns Ok(()), whatever result the
\* future had
run_impl(result) == "Ok"

\* main: the exit status of the process for the Result of cmd::run
main(result) == IF result = "Ok" THEN 0 ELSE 1

\* the exit status of the stream command once the session is over
ExitStatus == main(run_impl(SessionResult))

\* a sub-operation of the session leaves the relay alone
ServerUnchanged == UNCHANGED vars

\* poll_read_client, Event::Connect: the engine's socket is connected and its
\* handshake (Login, StartCasting) went out; the relay accepts the socket
\* and handles the handshake
ClientConnect ==
    /\ pc = 1
    /\ client.state = "Connecting"
    /\ nextId <= MaxConns
    /\ connections' = Accepted(nextId, <<Login, StartCasting>>)
    /\ nextId' = nextId + 1
    /\ client' = [state |-> "Connected", to_send |-> <<>>, conn |-> nextId]
    /\ connected' = TRUE
    /\ sent_remote' = 0
    /\ handed' = <<>>
    /\ pc' = 2
    /\ UNCHANGED <<sent, recv, joinAt, nmsgs, nerrs, nfail>>
    /\ UNCHANGED <<buffer, sent_local, needs_flush, done, raw_screen, process, lost>>
    /\ UNCHANGED <<dvars, wvars, rvars, ivars, kvars>>

\* poll_read_client, Event::Disconnect: the engine lost its connection (EOF,
\* a write error, a protocol violation) or was told to reconnect; it
\* discards its queued messages, and the relay reads EOF on the socket
ClientDisconnect ==
    /\ pc = 1
    /\ client.state \in {"Connected", "Reconnecting"}
    /\ client' = [state |-> "Connecting", to_send |-> <<>>, conn |-> NoId]
    /\ lost' = lost \cup Range(OutputBytes(client.to_send))
    /\ connected' = FALSE
    /\ connections' = handle_disconnect(Without(connections, client.conn),
                                         client.conn)
    /\ sent' = [sent EXCEPT ![client.conn] = <<>>]
    /\ pc' = 2
    /\ UNCHANGED <<nextId, recv, joinAt, nmsgs, nerrs, nfail>>
    /\ UNCHANGED <<buffer, sent_local, sent_remote, needs_flush, done,
                   raw_screen, process, handed>>
    /\ UNCHANGED <<dvars, wvars, rvars, ivars, kvars>>

\* Client::reconnect
Reconnect ==
    client' = [client EXCEPT
                !.state = IF @ = "Connected" THEN "Reconnecting" ELSE @]

\* poll_read_client, Event::ServerMessage: client.reconnect()
ClientServerMessage ==
    /\ pc = 1
    /\ client.state = "Connected"
    /\ Reconnect
    /\ pc' = 2
    /\ ServerUnchanged
    /\ UNCHANGED <<buffer, sent_local, sent_remote, needs_flush, connected,
                   done, raw_screen, process, handed, lost>>
    /\ UNCHANGED <<dvars, wvars, rvars, ivars, kvars>>

\* an engine error that is returned with ?
ClientErrorFatal ==
    /\ pc = 1
    /\ client.state = "Connected"
    /\ pc' = Failed
    /\ ServerUnchanged
    /\ UNCHANGED <<buffer, sent_local, sent_remote, needs_flush, connected,
                   done, raw_screen, process, client, handed, lost>>
    /\ UNCHANGED <<dvars, wvars, rvars, ivars, kvars>>

\* poll_read_client, client.poll() is Err: client.reconnect()
ClientError ==
    /\ pc = 1
    /\ client.state = "Connected"
    /\ Reconnect
    /\ pc' = 2
    /\ ServerUnchanged
    /\ UNCHANGED <<buffer, sent_local, sent_remote, needs_flush, connected,
                   done, raw_screen, process, handed, lost>>
    /\ UNCHANGED <<dvars, wvars, rvars, ivars, kvars>>

\* poll_read_client, Event::Start(size) or Event::Resize(size):
\* process.resize(size)
ClientResize(size) ==
    /\ pc = 1
    /\ client.state = "Connected"
    /\ process' = [process EXCEPT !.size = size]
    /\ pc' = 2
    /\ ServerUnchanged
    /\ UNCHANGED <<buffer, sent_local, sent_remote, needs_flush, connected,
                   done, raw_screen, client, handed, lost>>
    /\ UNCHANGED <<dvars, wvars, rvars, ivars, kvars>>

\* inside client.poll(): the engine writes the message at the head of its
\* to_send to its socket, and the relay reads and handles the frame
ClientWrite ==
    /\ pc = 1
    /\ client.state = "Connected"
    /\ client.to_send # <<>>
    /\ LET m == Head(client.to_send)
           new == Handled(connections, client.conn, m)
       IN  /\ connections' = new
           /\ sent' = [sent EXCEPT ![client.conn] = @ \o m.data]
           /\ recv' = [w \in ConnIds |->
                        recv[w] \o OutputBytes(Pushed(connections, new, w))]
    /\ client' = [client EXCEPT !.to_send = Tail(@)]
    /\ UNCHANGED <<nextId, joinAt, nmsgs, nerrs, nfail>>
    /\ UNCHANGED <<buffer, sent_local, sent_remote, needs_flush, connected,
                   done, raw_screen, process, pc, handed, lost>>
    /\ UNCHANGED <<dvars, wvars, rvars, ivars, kvars>>

\* poll_read_process, Event::CommandStart: raw mode, and the process gets
\* the size of the terminal
ProcessStart(size) ==
    /\ pc = 2
    /\ process.state = "Spawning"
    /\ raw_screen' = TRUE
    /\ process' = [process EXCEPT !.state = "Running", !.size = size]
    /\ pc' = 3
    /\ ServerUnchanged
    /\ UNCHANGED <<buffer, sent_local, sent_remote, needs_flush, connected,
                   done, client, handed, lost>>
    /\ UNCHANGED <<dvars, wvars, rvars, ivars, kvars>>

\* poll_read_process, Event::Output(output): record_bytes, for the next n
\* bytes of the process
ProcessOutput(n) ==
    /\ pc = 2
    /\ process.state = "Running"
    /\ process.output + n <= MaxOutput
    /\ LET output == [i \in 1 .. n |-> process.output + i]
           truncated == BufferTruncated(buffer, output, BufSize)
       IN  /\ buffer' = BufferAppend(buffer, output, BufSize)
           /\ sent_local' = Saturating(sent_local, truncated)
           /\ sent_remote' = Saturating(sent_remote, truncated)
    /\ process' = [process EXCEPT !.output = @ + n]
    /\ pc' = 3
    /\ ServerUnchanged
    /\ UNCHANGED <<needs_flush, connected, done, raw_screen, client, handed, lost>>
    /\ UNCHANGED <<dvars, wvars, rvars, ivars, kvars>>

\* Process.started: poll_command_start has run
started(p) == p.state # "Spawning"

\* Process.exit_done: poll_command_exit has seen the child exit
exit_done(p) == p.state = "Exited"

\* an exit that is reported and not remembered
ProcessExitNotDone ==
    /\ pc = 2
    /\ process.state = "Running"
    /\ done' = TRUE
    /\ pc' = 3
    /\ ServerUnchanged
    /\ UNCHANGED <<buffer, sent_local, sent_remote, needs_flush, connected,
                   raw_screen, process, client, handed, lost>>
    /\ UNCHANGED <<dvars, wvars, rvars, ivars, kvars>>

\* poll_read_process, Event::CommandExit.  From then on process.poll() is
\* Ready(None), which changes nothing.
ProcessExit ==
    /\ pc = 2
    /\ process.state = "Running"
    /\ process' = [process EXCEPT !.state = "Exited"]
    /\ done' = TRUE
    /\ pc' = 3
    /\ ServerUnchanged
    /\ UNCHANGED <<buffer, sent_local, sent_remote, needs_flush, connected,
                   raw_screen, client, handed, lost>>
    /\ UNCHANGED <<dvars, wvars, rvars, ivars, kvars>>

\* poll_read_process, Err: process.poll() fails, or raw mode or the size of
\* the terminal cannot be had at CommandStart; the ? returns the error and
\* the future of the session is Err
ProcessError ==
    /\ pc = 2
    /\ process.state \in {"Spawning", "Running"}
    /\ pc' = Failed
    /\ ServerUnchanged
    /\ UNCHANGED <<buffer, sent_local, sent_remote, needs_flush, connected,
                   done, raw_screen, process, client, handed, lost>>
    /\ UNCHANGED <<dvars, wvars, rvars, ivars, kvars>>

\* poll_write_terminal, stdout.poll_write fails: Err(WriteTerminal)
WriteTerminalError ==
    /\ pc = 3
    /\ sent_local # Len(buffer)
    /\ pc' = Failed
    /\ ServerUnchanged
    /\ UNCHANGED <<buffer, sent_local, sent_remote, needs_flush, connected,
                   done, raw_screen, process, client, handed, lost>>
    /\ UNCHANGED <<dvars, wvars, rvars, ivars, kvars>>

\* poll_write_terminal, stdout takes n bytes
WriteTerminal(n) ==
    /\ pc = 3
    /\ sent_local # Len(buffer)
    /\ n <= Len(buffer) - sent_local
    /\ sent_local' = sent_local + n
    /\ needs_flush' = TRUE
    /\ pc' = 4
    /\ ServerUnchanged
    /\ UNCHANGED <<buffer, sent_remote, connected, done, raw_screen, process,
                   client, handed, lost>>
    /\ UNCHANGED <<dvars, wvars, rvars, ivars, kvars>>

\* poll_flush_terminal, stdout is flushed
FlushTerminal ==
    /\ pc = 4
    /\ needs_flush
    /\ needs_flush' = FALSE
    /\ pc' = 5
    /\ ServerUnchanged
    /\ UNCHANGED <<buffer, sent_local, sent_remote, connected, done,
                   raw_screen, process, client, handed, lost>>
    /\ UNCHANGED <<dvars, wvars, rvars, ivars, kvars>>

\* poll_flush_terminal, stdout.poll_flush fails: Err(FlushTerminal)
FlushTerminalError ==
    /\ pc = 4
    /\ needs_flush
    /\ pc' = Failed
    /\ ServerUnchanged
    /\ UNCHANGED <<buffer, sent_local, sent_remote, needs_flush, connected,
                   done, raw_screen, process, client, handed, lost>>
    /\ UNCHANGED <<dvars, wvars, rvars, ivars, kvars>>

\* one of the first four sub-operations is NotReady or has NothingToDo (or
\* the exited process is polled): poll_future goes on to the next
NotReady ==
    /\ pc \in 1 .. 4
    /\ pc' = pc + 1
    /\ ServerUnchanged
    /\ UNCHANGED <<buffer, sent_local, sent_remote, needs_flush, connected,
                   done, raw_screen, process, client, handed, lost>>
    /\ UNCHANGED <<dvars, wvars, rvars, ivars, kvars>>

\* a write to the server that does not look at connected
WriteServerUnconnected ==
    /\ pc = 5
    /\ IF sent_remote = Len(buffer)
       THEN /\ pc' = IF done THEN 0 ELSE 1
            /\ UNCHANGED <<sent_remote, client, handed>>
       ELSE /\ client' = [client EXCEPT !.to_send =
                    Append(@, TerminalOutput(Unsent(buffer, sent_remote)))]
            /\ handed' = handed \o Unsent(buffer, sent_remote)
            /\ sent_remote' = Len(buffer)
            /\ pc' = 1
    /\ ServerUnchanged
    /\ UNCHANGED <<buffer, sent_local, needs_flush, connected, done,
                   raw_screen, process, lost>>
    /\ UNCHANGED <<dvars, wvars, rvars, ivars, kvars>>

\* a write to the server that, after the exit, waits for the connection to
\* come back before it ends the session
WriteServerWaits ==
    /\ pc = 5
    /\ IF sent_remote = Len(buffer)
       THEN /\ pc' = IF done THEN 0 ELSE 1
            /\ UNCHANGED <<sent_remote, client, handed>>
       ELSE IF ~connected
       THEN /\ pc' = 1
            /\ UNCHANGED <<sent_remote, client, handed>>
       ELSE /\ client' = [client EXCEPT !.to_send =
                    Append(@, TerminalOutput(Unsent(buffer, sent_remote)))]
            /\ handed' = handed \o Unsent(buffer, sent_remote)
            /\ sent_remote' = Len(buffer)
            /\ pc' = 1
    /\ ServerUnchanged
    /\ UNCHANGED <<buffer, sent_local, needs_flush, connected, done,
                   raw_screen, process, lost>>
    /\ UNCHANGED <<dvars, wvars, rvars, ivars, kvars>>

\* poll_write_server.  After it poll_future starts over, or, on Event, the
\* future of the session is Ready and the session ends.
poll_write_server ==
    /\ pc = 5
    /\ IF sent_remote = Len(buffer) \/ ~connected
       THEN /\ pc' = IF done THEN 0 ELSE 1
            /\ UNCHANGED <<sent_remote, client, handed>>
       ELSE /\ client' = [client EXCEPT !.to_send =
                    Append(@, TerminalOutput(Unsent(buffer, sent_remote)))]
            /\ handed' = handed \o Unsent(buffer, sent_remote)
            /\ sent_remote' = Len(buffer)
            /\ pc' = 1
    /\ ServerUnchanged
    /\ UNCHANGED <<buffer, sent_local, needs_flush, connected, done,
                   raw_screen, process, lost>>
    /\ UNCHANGED <<dvars, wvars, rvars, ivars, kvars>>

\* at the relay: a watcher connects, logs in and asks for the session of
\* the streamer
WatcherJoin ==
    /\ pc \in 1 .. 5
    /\ client.conn \in DOMAIN connections
    /\ nextId <= MaxConns
    /\ connections' = Accepted(nextId, <<Login, StartWatching(client.conn)>>)
    /\ recv' = [recv EXCEPT ![nextId] = connections[client.conn].saved_data]
    /\ joinAt' = [joinAt EXCEPT ![nextId] = Len(sent[client.conn])]
    /\ nextId' = nextId + 1
    /\ UNCHANGED <<sent, nmsgs, nerrs, nfail>>
    /\ UNCHANGED <<svars, dvars, wvars, rvars, ivars, kvars>>

poll_read_client ==
    \/ ClientConnect
    \/ ClientDisconnect
    \/ ClientServerMessage
    \/ ClientError
    \/ \E size \in Sizes : ClientResize(size)
    \/ ClientWrite

poll_read_process ==
    \/ \E size \in Sizes : ProcessStart(size)
    \/ \E n \in 1 .. MaxChunk : ProcessOutput(n)
    \/ ProcessExit
    \/ ProcessError

poll_write_terminal ==
    \/ \E n \in 1 .. BufSize : WriteTerminal(n)
    \/ WriteTerminalError

poll_flush_terminal ==
    \/ FlushTerminal
    \/ FlushTerminalError

StreamNext ==
    \/ poll_read_client
    \/ poll_read_process
    \/ poll_write_terminal
    \/ poll_flush_terminal
    \/ poll_write_server
    \/ NotReady
    \/ WatcherJoin

StreamSpec == Init /\ [][StreamNext]_allvars

\* the session is polled as long as it is not over: poll_future goes on
\* from one sub-operation to the next
StreamStep ==
    \/ poll_read_client
    \/ poll_read_process
    \/ poll_write_terminal
    \/ poll_flush_terminal
    \/ poll_write_server
    \/ NotReady

StreamFairSpec == StreamSpec /\ WF_allvars(StreamStep)

\* ------------------------------------------------------ the PTY driver
\* Process (process.rs), the stream of the events of a child that runs on a
\* PTY, and the child.  A step of the driver is one call of Process::poll
\* that returns an event or an error; a poll that returns NotReady or, after
\* the exit, Ready(None) changes nothing.  The input side (stdin to the PTY)
\* emits no event; a step of it is one read of stdin or one write to the
\* PTY.

\* the bytes of the PTY reads the events were made of, in order
RECURSIVE ReadBytes(_)
ReadBytes(es) ==
    IF es = <<>> THEN <<>> ELSE Head(es).read \o ReadBytes(Tail(es))

\* the child writes a byte to its terminal
ChildWrite(b) ==
    /\ child = "running"
    /\ Len(ReadBytes(events)) + Len(pty) < MaxWritten
    /\ pty' = Append(pty, b)
    /\ UNCHANGED <<child, driver, events>>
    /\ UNCHANGED <<vars, svars, wvars, rvars, ivars, kvars>>

\* the child exits: from now on process.poll() is Ready(status)
ChildExit ==
    /\ child = "running"
    /\ child' = "exited"
    /\ UNCHANGED <<pty, driver, events>>
    /\ UNCHANGED <<vars, svars, wvars, rvars, ivars, kvars>>

\* Process::poll, started is false: raw mode, then poll_command_start
poll_command_start ==
    /\ ~driver.failed
    /\ ~driver.started
    /\ driver' = [driver EXCEPT !.started = TRUE, !.raw_screen = TRUE]
    /\ events' = Append(events, CommandStart)
    /\ UNCHANGED <<child, pty>>
    /\ UNCHANGED <<vars, svars, wvars, rvars, ivars, kvars>>

\* Process::poll, started and not exit_done: poll_command_exit comes first,
\* and process.poll() is Ready
poll_command_exit ==
    /\ ~driver.failed
    /\ driver.started
    /\ ~driver.exit_done
    /\ child = "exited"
    /\ driver' = [driver EXCEPT !.exit_done = TRUE]
    /\ events' = Append(events, CommandExit)
    /\ UNCHANGED <<child, pty>>
    /\ UNCHANGED <<vars, svars, wvars, rvars, ivars, kvars>>

\* Process::poll, started and not exit_done: process.poll() is NotReady, and
\* poll_read_stdout reads n bytes from the PTY
poll_read_stdout(n) ==
    /\ ~driver.failed
    /\ driver.started
    /\ ~driver.exit_done
    /\ child = "running"
    /\ n \in 1 .. Len(pty)
    /\ events' = Append(events, Output(SubSeq(pty, 1, n)))
    /\ pty' = SubSeq(pty, n + 1, Len(pty))
    /\ UNCHANGED <<child, driver>>
    /\ UNCHANGED <<vars, svars, wvars, rvars, ivars, kvars>>

\* Process::poll returns Err: raw mode cannot be entered, or process.poll()
\* or a read or a write fails.  The stream is not polled again.
poll_error ==
    /\ ~driver.failed
    /\ ~driver.exit_done
    /\ \E raw \in {driver.raw_screen, TRUE} :
            driver' = [driver EXCEPT !.failed = TRUE, !.raw_screen = raw]
    /\ UNCHANGED <<child, pty, events>>
    /\ UNCHANGED <<vars, svars, wvars, rvars, ivars, kvars>>

\* Process::poll, started and not exit_done: process.poll() is NotReady and
\* poll_read_stdin reads n bytes from stdin into input_buf.  The k-th byte
\* read from stdin has the value k.
poll_read_stdin(n) ==
    /\ ~driver.failed
    /\ driver.started
    /\ ~driver.exit_done
    /\ child = "running"
    /\ nread + n <= MaxTyped
    /\ input_buf' = extend(input_buf, [i \in 1 .. n |-> nread + i])
    /\ nread' = nread + n
    /\ UNCHANGED <<pty_in, dvars>>
    /\ UNCHANGED <<vars, svars, wvars, rvars, kvars>>

\* Process::poll, started and not exit_done: input_buf is not empty and the
\* PTY accepts n bytes of the slice poll_write_stdin offers it
poll_write_stdin(n) ==
    /\ ~driver.failed
    /\ driver.started
    /\ ~driver.exit_done
    /\ child = "running"
    /\ input_buf.items # <<>>
    /\ n \in 1 .. Len(WriteSlice(input_buf))
    /\ pty_in' = pty_in \o SubSeq(WriteSlice(input_buf), 1, n)
    /\ input_buf' = pop_front(input_buf, n)
    /\ UNCHANGED <<nread, dvars>>
    /\ UNCHANGED <<vars, svars, wvars, rvars, kvars>>

ProcessNext ==
    \/ \E b \in Bytes : ChildWrite(b)
    \/ ChildExit
    \/ poll_command_start
    \/ poll_command_exit
    \/ \E n \in 1 .. MaxTyped : poll_read_stdin(n)
    \/ \E n \in 1 .. MaxTyped : poll_write_stdin(n)
    \/ \E n \in 1 .. MaxWritten : poll_read_stdout(n)
    \/ poll_error

ProcessSpec == Init /\ [][ProcessNext]_allvars

\* ------------------------------------------------------ the watch session
\* WatchSession (cmd/watch.rs) with the engine of its list client and, at
\* the other end, the relay, which answers each ListSessions of the list
\* client with one Sessions.  A step is one sub-operation that does work.
\* The output a watch client prints changes nothing of the session and is
\* left out.

\* Client::send_message on the list client
SendListSessions(c) == [c EXCEPT !.to_send = Append(@, ListSessions)]

\* the lists of sessions a Sessions message can carry
SessionLists == {SortedSeq(S) : S \in SUBSET (1 .. MaxConns - 1)}

\* a key is read from the terminal
Key ==
    /\ outcome = "Pending"
    /\ nkeys < MaxKeys
    /\ nkeys' = nkeys + 1

\* a Reconnect that goes back to LoggingIn and asks nothing
ReconnectWithoutQuery ==
    /\ outcome = "Pending"
    /\ list_client.state = "Connecting"
    /\ state' = LoggingIn
    /\ list_client' = [list_client EXCEPT !.state = "Connected"]
    /\ UNCHANGED <<outcome, nkeys, ndrops>>
    /\ UNCHANGED <<vars, svars, dvars, rvars, ivars, kvars>>

\* poll_list_client, Event::Reconnect: the engine of the list client has
\* connected and logged in
ListReconnect ==
    /\ outcome = "Pending"
    /\ list_client.state = "Connecting"
    /\ state' = LoggingIn
    /\ list_client' = SendListSessions(
                        [list_client EXCEPT !.state = "Connected"])
    /\ UNCHANGED <<outcome, nkeys, ndrops>>
    /\ UNCHANGED <<vars, svars, dvars, rvars, ivars, kvars>>

\* inside list_client.poll(): the engine loses its connection; what it had
\* queued and the replies on their way to it are lost
ListDisconnect ==
    /\ outcome = "Pending"
    /\ list_client.state = "Connected"
    /\ ndrops < MaxDrops
    /\ ndrops' = ndrops + 1
    /\ list_client' = [state |-> "Connecting", to_send |-> <<>>, replies |-> 0]
    /\ UNCHANGED <<state, outcome, nkeys>>
    /\ UNCHANGED <<vars, svars, dvars, rvars, ivars, kvars>>

\* inside list_client.poll(): the engine writes the ListSessions at the
\* head of its to_send, and the relay queues its reply
ListWrite ==
    /\ outcome = "Pending"
    /\ list_client.state = "Connected"
    /\ list_client.to_send # <<>>
    /\ list_client' = [list_client EXCEPT
                        !.to_send = Tail(@), !.replies = @ + 1]
    /\ UNCHANGED <<state, outcome, nkeys, ndrops>>
    /\ UNCHANGED <<vars, svars, dvars, rvars, ivars, kvars>>

\* poll_list_client, Event::ServerMessage(Sessions{sessions})
ListSessionsMessage(sessions) ==
    /\ outcome = "Pending"
    /\ list_client.state = "Connected"
    /\ list_client.replies > 0
    /\ list_client' = [list_client EXCEPT !.replies = @ - 1]
    /\ state' = Choosing(sessions)
    /\ UNCHANGED <<outcome, nkeys, ndrops>>
    /\ UNCHANGED <<vars, svars, dvars, rvars, ivars, kvars>>

\* poll_list_client returns Err: the engine fails, the list cannot be
\* printed, or the server sent something that is not a Sessions
ListError ==
    /\ outcome = "Pending"
    /\ list_client.state = "Connected"
    /\ outcome' = "Err"
    /\ UNCHANGED <<state, list_client, nkeys, ndrops>>
    /\ UNCHANGED <<vars, svars, dvars, rvars, ivars, kvars>>

\* poll_input, Choosing, the key ' ': ask for the list again
KeyRefresh ==
    /\ Key
    /\ state.k = "Choosing"
    /\ list_client' = SendListSessions(list_client)
    /\ UNCHANGED <<state, outcome, ndrops>>
    /\ UNCHANGED <<vars, svars, dvars, rvars, ivars, kvars>>

\* poll_input, Choosing, the key 'q': Event, the session is over
KeyQuit ==
    /\ Key
    /\ state.k = "Choosing"
    /\ outcome' = "Ok"
    /\ UNCHANGED <<state, list_client, ndrops>>
    /\ UNCHANGED <<vars, svars, dvars, rvars, ivars, kvars>>

\* poll_input, Choosing, the key of the i-th session of the list: a watch
\* client for it is made
KeySelect(i) ==
    /\ Key
    /\ state.k = "Choosing"
    /\ i \in DOMAIN state.sessions
    /\ state' = WatchingSession(state.sessions[i])
    /\ UNCHANGED <<list_client, outcome, ndrops>>
    /\ UNCHANGED <<vars, svars, dvars, rvars, ivars, kvars>>

\* poll_input, Watching, the key 'q': back to the list
KeyLeave ==
    /\ Key
    /\ state.k = "Watching"
    /\ state' = LoggingIn
    /\ list_client' = SendListSessions(list_client)
    /\ UNCHANGED <<outcome, ndrops>>
    /\ UNCHANGED <<vars, svars, dvars, rvars, ivars, kvars>>

\* poll_input, any other key (in Choosing: one that is the key of no
\* session): it is read and nothing else happens
KeyOther ==
    /\ Key
    /\ state.k \in {"Choosing", "Watching"}
    /\ UNCHANGED <<state, list_client, outcome, ndrops>>
    /\ UNCHANGED <<vars, svars, dvars, rvars, ivars, kvars>>

\* poll_watch_client, Event::ServerMessage(Disconnected) or (Error{msg}):
\* Event, the session is over
WatchEnded ==
    /\ outcome = "Pending"
    /\ state.k = "Watching"
    /\ outcome' = "Ok"
    /\ UNCHANGED <<state, list_client, nkeys, ndrops>>
    /\ UNCHANGED <<vars, svars, dvars, rvars, ivars, kvars>>

\* poll_watch_client returns Err: the engine fails, stderr cannot be
\* written, or the server sent an unexpected message
WatchError ==
    /\ outcome = "Pending"
    /\ state.k = "Watching"
    /\ outcome' = "Err"
    /\ UNCHANGED <<state, list_client, nkeys, ndrops>>
    /\ UNCHANGED <<vars, svars, dvars, rvars, ivars, kvars>>

poll_input ==
    \/ KeyRefresh
    \/ KeyQuit
    \/ \E i \in 1 .. MaxConns : KeySelect(i)
    \/ KeyLeave
    \/ KeyOther

poll_list_client ==
    \/ ListReconnect
    \/ ListDisconnect
    \/ ListWrite
    \/ \E sessions \in SessionLists : ListSessionsMessage(sessions)
    \/ ListError

poll_watch_client ==
    \/ WatchEnded
    \/ WatchError

WatchNext == poll_input \/ poll_list_client \/ poll_watch_client

WatchSpec == Init /\ [][WatchNext]_allvars

\* the engine connects when it can, writes what is queued and delivers what
\* it received
WatchFairSpec ==
    /\ WatchSpec
    /\ WF_allvars(ListReconnect)
    /\ WF_allvars(ListWrite)
    /\ WF_allvars(\E sessions \in SessionLists : ListSessionsMessage(sessions))

\* ------------------------------------------------------ SortedSessions::new
\* The loop over the sessions in their sorted order.  Which session gets a
\* key depends on its place in the order only, so the sessions are counted,
\* not kept; the list ends after any number of them.

\* std::char::from_u32: Some for a Unicode scalar value, None for a
\* surrogate and above the last code point
from_u32(u) ==
    IF u < 55296 \/ (u > 57343 /\ u <= 1114111) THEN u ELSE NoKey

\* offset += 1; if offset == 16 { offset += 1 }
OffsetAfter(o) == IF o + 1 = 16 THEN o + 2 ELSE o + 1

\* the body of the loop for the next session: from_u32(..) is Some(c)
KeymapInsert ==
    /\ sorted = "running"
    /\ nkeyed < MaxSessions
    /\ from_u32(CHAR_A + offset) # NoKey
    /\ last_key' = from_u32(CHAR_A + offset)
    /\ offset' = OffsetAfter(offset)
    /\ nkeyed' = nkeyed + 1
    /\ UNCHANGED sorted
    /\ UNCHANGED <<vars, svars, dvars, wvars, rvars, ivars>>

\* the body of the loop for the next session: from_u32(..) is None and
\* unwrap() panics
KeymapPanic ==
    /\ sorted = "running"
    /\ nkeyed < MaxSessions
    /\ from_u32(CHAR_A + offset) = NoKey
    /\ sorted' = "panicked"
    /\ UNCHANGED <<offset, nkeyed, last_key>>
    /\ UNCHANGED <<vars, svars, dvars, wvars, rvars, ivars>>

\* the list has no more sessions: Self { sessions: keymap }
KeymapReturn ==
    /\ sorted = "running"
    /\ sorted' = "returned"
    /\ UNCHANGED <<offset, nkeyed, last_key>>
    /\ UNCHANGED <<vars, svars, dvars, wvars, rvars, ivars>>

KeymapNext == KeymapInsert \/ KeymapPanic \/ KeymapReturn

KeymapSpec == Init /\ [][KeymapNext]_allvars

\* ------------------------------------------------------------ the claims
\* the frames the client of connection c can send
Frames(c) == ClientMessages(c) \cup ClientOutput(c)

\* the messages queued on or being written to connection conn
Outgoing(conn) ==
    Range(conn.to_send) \cup (IF conn.wsock = "Writing" THEN {conn.writing} ELSE {})

\* C1: a frame other than Login read on a connection whose metadata is None
\* is dispatched to handle_login_message only, and the step pushes the
\* Error of UnauthenticatedMessage on that connection's to_send and flags
\* it closed; it stays without role and without metadata, and no other
\* connection changes.
C1_Gatekeeping ==
    [][\A c \in DOMAIN connections : \A m \in Frames(c) :
        (/\ connections[c].metadata = "None"
         /\ m.type # "Login"
         /\ ReadMessage(c, m))
        => /\ Dispatch(connections[c]) = "login"
           /\ connections'[c].closed
           /\ connections'[c].to_send =
                Append(connections[c].to_send,
                       ErrorMessage("unauthenticated message", 0))
           /\ connections'[c].metadata = "None"
           /\ connections'[c].ty = NoTy
           /\ Without(connections', c) = Without(connections, c)]_vars

\* C1: a connection that never logged in was closed with the Error of
\* UnauthenticatedMessage
C1_Witness ==
    \E c \in DOMAIN connections :
        /\ connections[c].metadata = "None"
        /\ connections[c].closed
        /\ ErrorMessage("unauthenticated message", 0) \in Outgoing(connections[c])

\* the watchers that are attached to a caster still in the map
Attached ==
    {w \in DOMAIN connections :
        /\ IsWatcher(connections[w])
        /\ connections[w].ty.id \in DOMAIN connections
        /\ IsCaster(connections[connections[w].ty.id])}

\* C2 as stated: the TerminalOutput data enqueued for an attached watcher,
\* primer first, is all of what its caster has sent.
C2_AsStated ==
    \A w \in Attached : recv[w] = sent[connections[w].ty.id]

\* C2: the TerminalOutput data enqueued for an attached watcher is the
\* primer followed by every byte its caster sent after the join, in order
\* and once each; the primer is the replay buffer at the join, that is the
\* last BufSize bytes at most of what the caster had sent before the join.
C2_FanOut ==
    \A w \in Attached :
        LET S == sent[connections[w].ty.id]
        IN  recv[w] = LastN(SubSeq(S, 1, joinAt[w]), BufSize)
                        \o SubSeq(S, joinAt[w] + 1, Len(S))

\* C2: a watcher joined a caster that had sent output and the caster sent
\* more afterwards
C2_Witness ==
    \E w \in Attached :
        /\ joinAt[w] > 0
        /\ Len(sent[connections[w].ty.id]) > joinAt[w]
        /\ ~connections[w].closed

\* the watchers of connection c
WatchersOf(c) ==
    {w \in DOMAIN connections \ {c} :
        IsWatcher(connections[w]) /\ connections[w].ty.id = c}

\* C3 as stated: whenever a Casting connection leaves the map, each of its
\* watchers stays in the map, gets Disconnected pushed on its to_send and is
\* flagged closed by that step.
C3_AsStated ==
    [][\A c \in DOMAIN connections :
        (IsCaster(connections[c]) /\ c \notin DOMAIN connections')
        => \A w \in WatchersOf(c) :
              /\ w \in DOMAIN connections'
              /\ connections'[w].closed
              /\ connections'[w].to_send =
                    Append(connections[w].to_send, Disconnected)]_vars

\* the number of times b occurs in the sequence bs
Count(b, bs) == Cardinality({i \in DOMAIN bs : bs[i] = b})

\* the session has given the engine all of its buffer and the engine has
\* written all of it to its socket
AllShipped ==
    connected /\ sent_remote = Len(buffer) /\ client.to_send = <<>>

\* C4 as stated: when the session has emitted its final event (the client
\* engine is never Done before), sent_remote is buffer.len().
C4_AsStated ==
    pc = 0 => sent_remote = Len(buffer)

\* C5 as stated: once the session is connected again and has shipped its
\* buffer, every byte of a message lost to a Disconnect has been handed to
\* the engine exactly once since the Connect, and is among the data
\* enqueued for every watcher of the new connection exactly once.
C5_AsStated ==
    AllShipped =>
        \A b \in lost :
            /\ Count(b, handed) = 1
            /\ \A w \in WatchersOf(client.conn) : Count(b, recv[w]) = 1

\* C5: while the session is connected, the first sent_remote bytes of its
\* buffer are the bytes of the buffer handed to the engine since the Connect
\* (so none right after it, and the next TerminalOutput carries the whole
\* window), no byte was handed twice since the Connect, and what was
\* handed is what the relay has read followed by what the engine still
\* queues.  Once all is shipped, every byte lost to a Disconnect that is
\* still in the buffer was handed exactly once since the Connect, and the
\* data enqueued for a watcher of the new connection are the replay window
\* at its join followed by the bytes handed after it: every byte at most
\* once.
C5_Resend ==
    /\ connected =>
        /\ \A i \in DOMAIN buffer :
                (i <= sent_remote) <=> (buffer[i] \in Range(handed))
        /\ \A b \in Range(handed) : Count(b, handed) = 1
        /\ client.state = "Connected" =>
                handed = sent[client.conn] \o OutputBytes(client.to_send)
    /\ AllShipped /\ client.state = "Connected" =>
        /\ \A b \in lost \cap Range(buffer) : Count(b, handed) = 1
        /\ \A w \in WatchersOf(client.conn) :
            /\ recv[w] = LastN(SubSeq(handed, 1, joinAt[w]), BufSize)
                            \o SubSeq(handed, joinAt[w] + 1, Len(handed))
            /\ \A b \in Range(recv[w]) : Count(b, recv[w]) = 1

\* C5: a byte was lost to a Disconnect; the session is connected again and
\* has shipped its buffer with that byte, and a watcher of the new
\* connection has it among its data
C5_Witness ==
    /\ AllShipped
    /\ client.state = "Connected"
    /\ \E b \in lost :
        /\ b \in Range(handed)
        /\ \E w \in WatchersOf(client.conn) : b \in Range(recv[w])

\* C6: sent_local and sent_remote are within 0 .. buffer.len() in every
\* state of the session, and a step that records output of which the
\* buffer drops d bytes leaves each counter at max(0, counter - d).
C6_CounterSafety ==
    /\ [](/\ 0 <= sent_local /\ sent_local <= Len(buffer)
          /\ 0 <= sent_remote /\ sent_remote <= Len(buffer)
          /\ Len(buffer) <= BufSize)
    /\ [][\A n \in 1 .. MaxChunk :
            ProcessOutput(n) =>
                LET d == Len(buffer) + n - Len(buffer')
                IN  /\ d >= 0
                    /\ sent_local' = Max(0, sent_local - d)
                    /\ sent_remote' = Max(0, sent_remote - d)]_allvars

\* C6: the buffer has dropped bytes, of which some had not been sent to the
\* server in this connection: sent_remote is 0 after bytes were handed
C6_Witness ==
    /\ process.output > BufSize
    /\ connected
    /\ handed # <<>>
    /\ sent_remote = 0
    /\ sent_local > 0

\* C7: when a logged-in connection without role sends StartWatching{i} for
\* a caster i of the map, the step sets its role to Watching(i) and pushes
\* one message on its to_send, the TerminalOutput of the caster's
\* saved_data, which is the replay window of all the caster has sent;
\* and when a caster sends a TerminalOutput, the step pushes one
\* TerminalOutput with the same data at the back of the to_send of each of
\* its watchers, so behind the primer.
C7_LateJoiner ==
    [][/\ \A c \in DOMAIN connections : \A i \in DOMAIN connections \ {c} :
            (/\ connections[c].metadata # "None"
             /\ connections[c].ty = NoTy
             /\ IsCaster(connections[i])
             /\ ReadMessage(c, StartWatching(i)))
            => /\ connections'[c].ty = Watching(i)
               /\ connections'[c].closed = connections[c].closed
               /\ connections[i].saved_data = LastN(sent[i], BufSize)
               /\ connections'[c].to_send =
                    Append(connections[c].to_send,
                           TerminalOutput(connections[i].saved_data))
       /\ \A c \in DOMAIN connections : \A m \in ClientOutput(c) :
            (IsCaster(connections[c]) /\ ReadMessage(c, m))
            => \A w \in WatchersOf(c) :
                  connections'[w].to_send =
                    Append(connections[w].to_send, TerminalOutput(m.data))]_vars

\* C7: a watcher is being written its primer, which is not empty, and the
\* chunk its caster sent after the join is queued behind it
C7_Witness ==
    \E w \in Attached :
        /\ joinAt[w] > 0
        /\ connections[w].wsock = "Writing"
        /\ connections[w].writing =
              TerminalOutput(LastN(SubSeq(sent[connections[w].ty.id], 1, joinAt[w]),
                                   BufSize))
        /\ connections[w].to_send # <<>>
        /\ Head(connections[w].to_send).type = "TerminalOutput"
        /\ Head(connections[w].to_send).data # <<>>

\* C8: when a logged-in connection without role sends StartWatching{i} and
\* i is no key of the connection map, the step pushes one message on its
\* to_send, the Error of InvalidWatchId{i}, and flags it closed; its role
\* stays None and no other connection changes.
C8_InvalidWatchId ==
    [][\A c \in DOMAIN connections : \A i \in (ConnIds \cup {NoId}) \ DOMAIN connections :
        (/\ connections[c].metadata # "None"
         /\ connections[c].ty = NoTy
         /\ ReadMessage(c, StartWatching(i)))
        => /\ connections'[c].closed
           /\ connections'[c].ty = NoTy
           /\ connections'[c].to_send =
                Append(connections[c].to_send,
                       ErrorMessage("invalid watch id", i))
           /\ Without(connections', c) = Without(connections, c)]_vars

\* C8: a logged-in connection without role was closed with the Error of
\* InvalidWatchId for an id that is no key of the map
C8_Witness ==
    \E c \in DOMAIN connections :
        /\ connections[c].metadata # "None"
        /\ connections[c].ty = NoTy
        /\ connections[c].closed
        /\ ErrorMessage("invalid watch id", NoId) \in Outgoing(connections[c])

\* C9 as stated: a frame that does not decode leaves its connection in the
\* map, flagged closed and with an Error message pushed on its to_send, to
\* be written before the connection is removed.
C9_AsStated ==
    [][\A c \in DOMAIN connections :
        ReadError(c)
        => /\ c \in DOMAIN connections'
           /\ connections'[c].closed
           /\ \E e \in Range(connections'[c].to_send) : e.type = "Error"]_vars

\* C10 as stated: when a logged-in connection, whatever its role, sends
\* Heartbeat, the step pushes a Heartbeat on its to_send and does not flag
\* it closed.
C10_AsStated ==
    [][\A c \in DOMAIN connections :
        (connections[c].metadata # "None" /\ ReadMessage(c, Heartbeat))
        => /\ connections'[c].to_send =
                Append(connections[c].to_send, Heartbeat)
           /\ connections'[c].closed = connections[c].closed]_vars

\* C11 (as stated): a Login whose proto_version differs from the server's is
\* refused: the connection gets the Error "proto version mismatch", is
\* flagged closed, and is not logged in (its metadata stays None).
C11_AsStated ==
    [][\A c \in DOMAIN connections :
            (connections[c].metadata = "None" /\ ReadMessage(c, OtherLogin))
            => /\ c \in DOMAIN connections'
               /\ connections'[c].closed
               /\ connections'[c].metadata = "None"
               /\ connections'[c].to_send =
                    Append(connections[c].to_send,
                           ErrorMessage("proto version mismatch", 0))]_vars

\* C12 (as stated): a Resize read from a caster is forwarded to every
\* connection watching it, and the caster is not closed.
C12_AsStated ==
    [][\A c \in DOMAIN connections :
            (IsCaster(connections[c]) /\ ~connections[c].closed
                /\ ReadMessage(c, Resize))
            => /\ c \in DOMAIN connections'
               /\ ~connections'[c].closed
               /\ \A w \in WatchersOf(c) :
                    connections'[w].to_send =
                        Append(connections[w].to_send, Resize)]_vars

\* the messages of connection conn that are not written yet, the one in
\* flight first
Pipeline(conn) ==
    (IF conn.wsock = "Writing" THEN <<conn.writing>> ELSE <<>>) \o conn.to_send

\* s is the end of t
IsSuffix(s, t) == Len(s) <= Len(t) /\ s = LastN(t, Len(s))

\* s is the beginning of t
IsPrefix(s, t) == Len(s) <= Len(t) /\ s = SubSeq(t, 1, Len(s))

\* between two states connection c started the write of the message at the
\* front of its to_send, with no write in flight before
WriteBegan(a, b) ==
    /\ a.wsock = "Connected"
    /\ b.wsock = "Writing"
    /\ a.to_send # <<>>
    /\ b.writing = Head(a.to_send)
    /\ b.to_send = Tail(a.to_send)

\* between two states connection c started no write: its to_send only grew
\* at the back, and the write in flight stayed in flight or completed
NoWriteBegan(a, b) ==
    /\ IsPrefix(a.to_send, b.to_send)
    /\ \/ b.wsock = a.wsock /\ b.writing = a.writing
       \/ a.wsock = "Writing" /\ b.wsock = "Connected" /\ b.writing = NoMessage

\* C13: the messages written to a connection's socket are a prefix of the
\* messages enqueued on its to_send, in the order of enqueueing, one write
\* in flight at most: a write starts only when none is in flight and takes
\* the front of to_send, every other step leaves to_send alone or pushes at
\* its back; so the output bytes not yet written to a connection are, in
\* order, the end of the bytes enqueued for it, and those written are the
\* beginning.
C13_Fifo ==
    /\ [](\A c \in DOMAIN connections :
            IsSuffix(OutputBytes(Pipeline(connections[c])), recv[c]))
    /\ [][\A c \in DOMAIN connections \cap DOMAIN connections' :
            \/ WriteBegan(connections[c], connections'[c])
            \/ NoWriteBegan(connections[c], connections'[c])]_vars

\* C13: a watcher's primer is being written while two chunks of its caster
\* wait in its to_send
C13_Witness ==
    \E w \in Attached :
        /\ connections[w].wsock = "Writing"
        /\ connections[w].writing.type = "TerminalOutput"
        /\ Len(connections[w].to_send) = 2
        /\ Len(OutputBytes(connections[w].to_send)) >= 2
        /\ ~connections[w].closed

C15_WatcherLeaves ==
    [][\A w \in Attached :
        w \notin DOMAIN connections' =>
            LET c == connections[w].ty.id
            IN  /\ c \in DOMAIN connections'
                /\ connections'[c] = connections[c]
                /\ \A v \in WatchersOf(c) \ {w} :
                        /\ v \in DOMAIN connections'
                        /\ connections'[v] = connections[v]]_vars

\* C15: of the two connections the server accepted, one is a caster that
\* sent output and is still in the map; the other joined it as a watcher
\* and has left
C15_Witness ==
    /\ nextId = 3
    /\ \E c \in DOMAIN connections :
            /\ IsCaster(connections[c])
            /\ ~connections[c].closed
            /\ sent[c] # <<>>
            /\ \E w \in (1 .. 2) \ DOMAIN connections : joinAt[w] > 0

\* C16 (as stated): when the read half of a connection reaches EOF while
\* messages are queued on its to_send, the step only flags the connection
\* closed: it stays in the map with its to_send, so that the queued messages
\* are written before it is dropped.
C16_AsStated ==
    [][\A c \in DOMAIN connections :
        (connections[c].to_send # <<>> /\ ReadEof(c))
        => /\ c \in DOMAIN connections'
           /\ connections'[c].closed
           /\ connections'[c].to_send = connections[c].to_send]_vars

\* C18 (as stated): when the PTY driver, the write to the terminal or the
\* flush of the terminal fails, the future of the session fails and the
\* stream command exits with status 1; it exits with status 0 when the
\* session completed.
C18_AsStated ==
    /\ SessionResult = "Err" => ExitStatus = 1
    /\ SessionResult = "Ok" => ExitStatus = 0

\* C17: no outcome of the client engine is an error of the session: after
\* poll_read_client the session is neither failed nor over, whatever the
\* engine reported; an engine error or a ServerMessage only calls
\* reconnect(): done, buffer, sent_local and the process are as before.
C17_EngineNonFatal ==
    [][/\ pc = 1 => pc' \in {1, 2}
       /\ (ClientServerMessage \/ ClientError) =>
            /\ client' = [client EXCEPT !.state = "Reconnecting"]
            /\ done' = done
            /\ buffer' = buffer
            /\ sent_local' = sent_local
            /\ process' = process]_allvars

\* C17: the engine was told to reconnect while the child runs and has
\* output in the buffer
C17_Witness ==
    /\ client.state = "Reconnecting"
    /\ pc = 2
    /\ process.state = "Running"
    /\ buffer # <<>>

\* C19: the events of the Process stream come in the order CommandStart,
\* Output ..., CommandExit: CommandStart is emitted by the first poll only
\* (started is false before it and true ever after, and nothing was output
\* before it), Output and CommandExit are emitted only between CommandStart
\* and CommandExit, CommandExit sets exit_done for good, and once exit_done
\* is set the stream is at its end: no output and no exit is reported again.
C19_EventSequence ==
    [][/\ (\E size \in Sizes : ProcessStart(size)) =>
            ~started(process) /\ started(process') /\ process.output = 0
       /\ (\E n \in 1 .. MaxChunk : ProcessOutput(n)) =>
            /\ started(process) /\ ~exit_done(process)
            /\ ~exit_done(process')
       /\ ProcessExit =>
            /\ started(process) /\ ~exit_done(process)
            /\ exit_done(process')
       /\ ~started(process) => process'.output = 0 /\ ~exit_done(process')
       /\ started(process) => started(process')
       /\ ~done => ~exit_done(process)
       /\ exit_done(process) =>
            /\ exit_done(process')
            /\ process'.output = process.output
            /\ done /\ done']_allvars

\* C19: the stream has emitted CommandStart, output and CommandExit, and
\* has been polled to its end
C19_Witness ==
    /\ exit_done(process)
    /\ process.output >= 2
    /\ pc = 0

\* the bytes 1, 2, ..., n: what the child process has output when it has
\* output n bytes
FirstBytes(n) == [i \in 1 .. n |-> i]

\* C20: the buffer of the session holds the end of all the bytes appended to
\* it, at most BufSize of them, so that what was dropped is
\* max(0, appended - BufSize) bytes, all from the front; each append returns
\* the number of bytes it dropped; the replay buffer of a caster holds the
\* end of what the caster sent in the same way; and a buffer of 8 bytes
\* that is given 1 ... 8 and then 9, 10 holds 3 ... 10 and has dropped 2.
C20_Conservation ==
    /\ [](/\ buffer = LastN(FirstBytes(process.output), BufSize)
          /\ Len(buffer) <= BufSize
          /\ process.output - Len(buffer) = Max(0, process.output - BufSize)
          /\ \A c \in DOMAIN connections :
                IsCaster(connections[c]) =>
                    connections[c].saved_data = LastN(sent[c], BufSize)
          /\ BufferAppend(BufferAppend(<<>>, FirstBytes(8), 8), <<9, 10>>, 8)
                = <<3, 4, 5, 6, 7, 8, 9, 10>>
          /\ BufferTruncated(FirstBytes(8), <<9, 10>>, 8) = 2)
    /\ [][\A n \in 1 .. MaxChunk :
            ProcessOutput(n) =>
                LET output == [i \in 1 .. n |-> process.output + i]
                    dropped == Len(buffer) + n - Len(buffer')
                IN  /\ BufferTruncated(buffer, output, BufSize) = dropped
                    /\ IsSuffix(buffer', buffer \o output)]_allvars

\* C20: the child has output more than the buffer holds, and the buffer is
\* full
C20_Witness ==
    /\ process.output > BufSize
    /\ Len(buffer) = BufSize

\* C21: a connection has a role only if it has metadata, and it has
\* metadata exactly when a Login was handled on it: a connection enters the
\* map without metadata and without role, its metadata is set only by the
\* step that handles a Login read from it, that step always sets it, and it
\* is never unset.
C21_LoginRole ==
    /\ [](\A c \in DOMAIN connections :
            connections[c].ty # NoTy => connections[c].metadata # "None")
    /\ [][/\ \A c \in DOMAIN connections' \ DOMAIN connections :
               connections'[c].metadata = "None" /\ connections'[c].ty = NoTy
          /\ \A c \in DOMAIN connections \cap DOMAIN connections' :
               /\ connections[c].metadata # "None" =>
                       connections'[c].metadata # "None"
               /\ connections'[c].metadata # connections[c].metadata =>
                       \E m \in {Login, OtherLogin} : ReadMessage(c, m)
               /\ \A m \in {Login, OtherLogin} :
                       ReadMessage(c, m) => connections'[c].metadata # "None"]_vars

\* C21: one connection has logged in and taken a role, another is in the
\* map and has not logged in
C21_Witness ==
    /\ \E c \in DOMAIN connections :
            connections[c].metadata # "None" /\ connections[c].ty # NoTy
    /\ \E c \in DOMAIN connections :
            /\ connections[c].metadata = "None"
            /\ ~connections[c].closed
            /\ connections[c].rsock = "Reading"

\* C22 (as stated): the step that handles a StartWatching{id} sets the role
\* of the connection to Watching(id) only if id is then the key of a
\* connection whose role is Casting; otherwise the connection gets the
\* Error of InvalidWatchId and is flagged closed.
C22_AsStated ==
    [][\A c \in DOMAIN connections : \A i \in ConnIds \cup {NoId} :
        (/\ connections[c].metadata # "None"
         /\ connections[c].ty = NoTy
         /\ ReadMessage(c, StartWatching(i)))
        => IF i \in DOMAIN connections \ {c} /\ IsCaster(connections[i])
           THEN connections'[c].ty = Watching(i)
           ELSE /\ connections'[c].ty = NoTy
                /\ connections'[c].closed
                /\ connections'[c].to_send =
                        Append(connections[c].to_send,
                               ErrorMessage("invalid watch id", i))]_vars

\* C23 (as stated): an Error is the last message of a connection: among the
\* messages in flight and queued on a connection, nothing comes after an
\* Error.
C23_AsStated ==
    \A c \in DOMAIN connections :
        LET p == Pipeline(connections[c])
        IN  \A k \in DOMAIN p : p[k].type = "Error" => k = Len(p)

\* C24: when a connection that has logged in and has no role sends
\* ListSessions, the step pushes on its to_send one Sessions message that
\* lists the connections of the map that have logged in and whose role is
\* Casting, and nothing else changes: not its role, not any other
\* connection.
C24_ListSessions ==
    [][\A c \in DOMAIN connections :
        (/\ connections[c].metadata # "None"
         /\ connections[c].ty = NoTy
         /\ ReadMessage(c, ListSessions))
        => /\ connections'[c] =
                [connections[c] EXCEPT
                    !.rsock = "Connected",
                    !.to_send = Append(@, Sessions(SortedSeq(
                        {d \in DOMAIN connections \ {c} :
                            /\ connections[d].metadata # "None"
                            /\ connections[d].ty = Casting})))]
           /\ Without(connections', c) = Without(connections, c)]_vars

\* C24: a Sessions reply that lists a caster is queued on or being written
\* to a connection while another connection has logged in without casting
C24_Witness ==
    \E c \in DOMAIN connections :
        /\ \E m \in Outgoing(connections[c]) :
                m.type = "Sessions" /\ m.data # <<>>
        /\ \E d \in DOMAIN connections \ {c} :
                connections[d].metadata # "None" /\ connections[d].ty # Casting

\* C25 (as stated): while the session lives, raw mode is held from the
\* CommandStart event to the CommandExit event: it is held once the process
\* has started and is no longer held once its exit has been emitted.
C25_AsStated ==
    pc \in 1 .. 5 =>
        (raw_screen <=> started(process) /\ ~exit_done(process))

\* the number of line feeds among the first i bytes of r
LineFeeds(r, i) == Cardinality({j \in 1 .. i : r[j] = LF})

\* C26: an Output event carries the bytes of one read of the PTY, in order,
\* with \r\n for each \n and every other byte as it was read: the byte
\* read at position i is at position i + (line feeds read up to i) of the
\* data, a line feed has a carriage return put before it, the data is as
\* long as the bytes read plus the line feeds read, and no line feed of the
\* data is without a carriage return before it.  The read takes the bytes
\* from the front of what the child wrote and leaves the rest.
C26_Newlines ==
    /\ [](\A k \in DOMAIN events :
            events[k].type = "Output" =>
            LET r == events[k].read
                d == events[k].data
            IN  /\ Len(d) = Len(r) + LineFeeds(r, Len(r))
                /\ \A i \in DOMAIN r :
                        /\ d[i + LineFeeds(r, i)] = r[i]
                        /\ r[i] = LF => d[i + LineFeeds(r, i) - 1] = CR
                /\ \A i \in DOMAIN d :
                        d[i] = LF => i > 1 /\ d[i - 1] = CR)
    /\ [][\A n \in 1 .. MaxWritten :
            poll_read_stdout(n) =>
                /\ events' = Append(events, events'[Len(events')])
                /\ events'[Len(events')].type = "Output"
                /\ events'[Len(events')].read \o pty' = pty
                /\ Len(events'[Len(events')].read) = n]_allvars

\* C26: an Output was made of a read of several bytes with a line feed
\* that is not the first of them
C26_Witness ==
    \E k \in DOMAIN events :
        /\ events[k].type = "Output"
        /\ Len(events[k].read) >= 2
        /\ \E i \in 2 .. Len(events[k].read) : events[k].read[i] = LF

\* C27 (as stated): every TerminalOutput the server has queued on or is
\* writing to a connection carries at least one byte, and so does every
\* TerminalOutput the session has handed to its client engine.
C27_AsStated ==
    /\ \A c \in DOMAIN connections :
            \A m \in Outgoing(connections[c]) :
                m.type = "TerminalOutput" => m.data # <<>>
    /\ \A k \in DOMAIN client.to_send :
            client.to_send[k].type = "TerminalOutput" =>
                client.to_send[k].data # <<>>

\* C28: on every Reconnect of the list client the watch session goes back
\* to LoggingIn and queues exactly one more ListSessions; a Sessions reply
\* puts it in Choosing with the list of the reply; while it is in LoggingIn
\* with a connected list client a query is on its way (queued in the engine
\* or awaiting its reply); and from LoggingIn the session always reaches
\* Choosing, unless it ends first.
Outstanding == Len(list_client.to_send) + list_client.replies

C28_Reissue ==
    /\ [][ListReconnect =>
            /\ state' = LoggingIn
            /\ list_client'.to_send = Append(list_client.to_send, ListSessions)
            /\ list_client'.replies = list_client.replies]_allvars
    /\ [][\A sessions \in SessionLists :
            ListSessionsMessage(sessions) => state' = Choosing(sessions)]_allvars
    /\ [](state.k = "LoggingIn" /\ list_client.state = "Connected"
            /\ outcome = "Pending" => Outstanding > 0)
    /\ (state.k = "LoggingIn" /\ outcome = "Pending")
            ~> (state.k = "Choosing" \/ outcome # "Pending")

\* the list client lost its connection, came back, and the query asked
\* again at the Reconnect was answered
C28_Witness ==
    /\ ndrops > 0
    /\ list_client.state = "Connected"
    /\ state.k = "Choosing"
    /\ outcome = "Pending"

\* C29: poll_write_server hands a TerminalOutput to the client engine
\* exactly when connected holds and sent_remote < buffer.len(); the message
\* is one, its data is buffer.contents()[sent_remote..], and afterwards
\* sent_remote = buffer.len(); when it hands nothing, and so whenever
\* connected is false, the engine's queue, sent_remote, sent_local and the
\* buffer are as before.  sent_remote never exceeds buffer.len().
C29_WriteServer ==
    /\ [](sent_remote <= Len(buffer))
    /\ [][poll_write_server =>
            IF connected /\ sent_remote < Len(buffer)
            THEN /\ client'.to_send = Append(client.to_send,
                        TerminalOutput(SubSeq(buffer, sent_remote + 1,
                                              Len(buffer))))
                 /\ sent_remote' = Len(buffer')
                 /\ UNCHANGED <<buffer, sent_local>>
            ELSE UNCHANGED <<client, handed, sent_remote, sent_local,
                             buffer>>]_allvars

\* bytes were handed to the engine, the streamer has since lost its
\* connection, and poll_write_server has just left the bytes that came after
\* unsent
C29_Witness ==
    /\ handed # <<>>
    /\ ~connected
    /\ 0 < sent_remote
    /\ sent_remote < Len(buffer)
    /\ ~done
    /\ pc = 1

\* C30: when the CommandExit event has been emitted, every byte the child
\* wrote to the PTY has been emitted in an Output event before it: none is
\* left unread in the PTY.
C30_AsStated ==
    (\E k \in DOMAIN events : events[k] = CommandExit) => pty = <<>>

\* C31: when the streamer session has emitted its final event, every
\* buffered byte has been written to the local stdout and flushed:
\* sent_local = buffer.len() and needs_flush is false.
C31_AsStated == pc = 0 => sent_local = Len(buffer) /\ ~needs_flush

\* C32 (as stated): a message read from a connection whose closed flag is
\* set changes nothing of the server: the connection keeps its login, its
\* role, its replay buffer and its queue, every other connection is as
\* before, and no watcher is sent anything.
C32_AsStated ==
    [][\A c \in DOMAIN connections :
        \A m \in ClientMessages(c) \cup ClientOutput(c) :
            (connections[c].closed /\ ReadMessage(c, m)) =>
                /\ DOMAIN connections' = DOMAIN connections
                /\ connections'[c] =
                        [connections[c] EXCEPT !.rsock = "Connected"]
                /\ \A d \in DOMAIN connections \ {c} :
                        connections'[d] = connections[d]
                /\ recv' = recv]_allvars

\* C33 (as stated): when a round of Server::poll ends with no DidWork and
\* the task is parked, no connection whose write half is idle (Connected)
\* has a message queued or its closed flag set.
C33_AsStated ==
    phase = "parked" =>
        \A c \in DOMAIN connections :
            connections[c].wsock = "Connected" =>
                connections[c].to_send = <<>> /\ ~connections[c].closed

\* C34: once done is set the streamer session ends: its future becomes
\* Ready (or Err, when the terminal or the process fails), connected or not.
\* After done at most one more TerminalOutput is handed to the engine: a
\* step that hands one leaves nothing unsent, and from then on, as whenever
\* done holds with nothing unsent or no connection, no step hands one or
\* makes bytes unsent on a connection again.
Drained == sent_remote = Len(buffer) \/ ~connected

RoleMessages ==
    {Login, StartCasting, ListSessions}
        \cup {StartWatching(i) : i \in ConnIds \cup {NoId}}

C35_RoleOnce ==
    /\ [][\A c \in DOMAIN connections \cap DOMAIN connections' :
            connections[c].ty # NoTy =>
                connections'[c].ty = connections[c].ty]_allvars
    /\ [][\A c \in DOMAIN connections :
            \A m \in RoleMessages :
                (connections[c].ty # NoTy /\ ReadMessage(c, m)) =>
                    /\ connections'[c].closed
                    /\ connections'[c].to_send =
                            Append(connections[c].to_send,
                                   ErrorMessage(UnexpectedMessage.err,
                                                UnexpectedMessage.id))]_allvars

\* a connection with a role was answered a Heartbeat, which only a
\* connection with a role is, and then sent a message that closed it with
\* an Error; it has the role still
C35_Witness ==
    \E c \in DOMAIN connections :
        LET p == Pipeline(connections[c])
        IN  /\ connections[c].ty # NoTy
            /\ connections[c].closed
            /\ \E k \in 1 .. Len(p) - 1 :
                    /\ p[k] = Heartbeat
                    /\ p[k + 1] = ErrorMessage(UnexpectedMessage.err,
                                               UnexpectedMessage.id)

\* C36 (as stated): a watch session in Watching leaves that state, or changes
\* the session it watches, only by the key 'q'; an event of the list client
\* does not.  (Disconnected or Error from the watch client end the session
\* and leave the state as it is.)
C36_AsStated ==
    [][state.k = "Watching" /\ state' # state => KeyLeave]_allvars

\* C37 (as stated): SortedSessions::new gives every session of the list a
\* key: it does not stop before the end of the list; the key is never 'q'
\* and never ' '; and each key is above the one given before it, so no two
\* sessions have the same key.
C37_AsStated ==
    /\ [](sorted # "panicked")
    /\ [](last_key # CHAR_Q /\ last_key # SPACE)
    /\ [][KeymapInsert => last_key' > last_key]_allvars

\* C38: the bytes written to the PTY master are a prefix of the bytes read
\* from stdin, in their order, and the bytes still in input_buf are the
\* rest of them; a write to the PTY, short or not, adds to what was written
\* the bytes at the front of input_buf and takes just those off it.
C38_Fifo ==
    /\ [](pty_in \o input_buf.items = [i \in 1 .. nread |-> i])
    /\ [][\A n \in 1 .. MaxTyped :
            poll_write_stdin(n) =>
                /\ pty_in' = pty_in \o SubSeq(input_buf.items, 1, n)
                /\ input_buf'.items =
                        SubSeq(input_buf.items, n + 1, Len(input_buf.items))
                /\ nread' = nread]_allvars

\* a short write: the queue was wrapped around the end of its ring, and
\* only its first slice went to the PTY
C38_Witness ==
    /\ Len(pty_in) = 3
    /\ input_buf.items = <<4>>
    /\ input_buf.head = 0
    /\ input_buf.cap = RingCap

====
